---- MODULE Spec2Model ----
(***************************************************************************)
(* DRAGONWIND: the simulation engine's component lifecycle and shared      *)
(* state map (core/simulation_engine.py, core/base_component.py and the    *)
(* modules that look up siblings or use the shared state), and the Monte   *)
(* Carlo runner that builds and runs one engine per iteration              *)
(* (core/monte_carlo.py).                                                  *)
(*                                                                         *)
(* Execution is single-threaded: one call of a component's initialize,     *)
(* step or finalize is one action, and the engine's position in run() is   *)
(* (pc, year, idx).  Floats are fixed-point integers: green_share, growth  *)
(* rates and the innovation boost in 1/1000, capacities in 1/10 GW.        *)
(***************************************************************************)
EXTENDS Integers, Sequences, FiniteSets, TLC

\* ------------------------------------------------------------------ bounds
MaxComponents == 3
MaxYears == 2
MaxIterations == 2

\* ------------------------------------------------------- program constants
StartYear == 2025
BoostOne == 1000
GreenShareCap == 900
GreenShareGrowthPct == 102
InitialGreenShare == 300
TotalBriInvestment == 500
InnovationBoostFactor == 1
InitialSolar == 1000
InitialWind == 500
GrowthSolarPermille == 100
GrowthWindPermille == 50
\* what a Custom component writes under the boost key: 2.0
CustomBoost == 2 * BoostOne

\* an absent key, or no value read or written (values are positive)
NoValue == 0 - 1
BoostKey == "bri_innovation_boost"

\* -------------------------------------------------------------- components
\* A component's name is the sequence of its words, so that == and
\* str.startswith are both computed on it.
RenewableName == <<"Renewable", "Capacity", "Expansion">>
RenewablePrefix == <<"Renewable", "Capacity">>
GridPrefix == <<"Grid", "Integration">>

DefaultName(cls) ==
    CASE cls = "Renewable" -> RenewableName
      [] cls = "Grid" -> <<"Grid", "Integration">>
      [] cls = "Finance" -> <<"Financial", "Modeling">>
      [] cls = "Manufacturing" -> <<"Manufacturing", "Capacity">>
      [] cls = "Install" -> <<"Installation", "Capacity">>
      [] cls = "BRI" -> <<"BRI", "Analysis">>
      [] cls = "BESS" -> <<"BESS", "Deployment">>
      [] cls = "Provincial" -> <<"Provincial", "Analysis">>
      [] OTHER -> <<"Custom">>

Classes == {"Renewable", "Grid", "Finance", "Manufacturing", "Install", "BRI", "BESS",
            "Provincial", "Custom"}

\* ProvincialAnalysis.provinces, in the order initialize() inserts them
Provinces == <<"Xinjiang", "Guangdong", "Hebei">>

\* The progress argument of run(): None, or an object with an update method.
ProgressArgs == {"None", "tracker"}

\* Another implementation of SimulationComponent, constructed with a name that
\* shares the prefix "Renewable Capacity" with the repository's expansion model.
PilotName == <<"Renewable", "Capacity", "Pilot">>
Pilot == [cls |-> "Custom", name |-> PilotName]

\* The component objects a caller can register, each constructed with its
\* class's default name.
Pool == {[cls |-> c, name |-> DefaultName(c)] : c \in Classes}

\* Every component object there is.
Objects == Pool \cup {Pilot}

VARIABLES
    start_year,     \* SimulationEngine.start_year
    end_year,       \* SimulationEngine.end_year
    components,     \* SimulationEngine.components, in registration order
    state,          \* SimulationEngine.state, the shared map
    pc,             \* where run() is: setup, initialize, loop, finalize, done, raised
    year,           \* the loop variable of _run_simulation_loop
    idx,            \* position of the inner `for component in self.components`
    ref,            \* per component: the sibling its initialize cached (0: none)
    history,        \* per component: self.history, one row per step
    green_share,    \* BRIAnalysis.green_share
    capacity,       \* RenewableCapacityExpansion.capacity
    log,            \* the calls made so far, in order
    progress,       \* the progress argument of run()
    simulation_engine, \* per component object: SimulationComponent.simulation_engine
    other_components,  \* the components list of a second SimulationEngine instance
    analytics,      \* what the analytics block of _finalize_components did
    mc_pc,          \* where MonteCarloSimulation.run() is (off: no runner)
    n_iterations,   \* MonteCarloSimulation.n_iterations
    mc_i,           \* the loop variable i of MonteCarloSimulation.run
    parameter_samples, \* MonteCarloSimulation.parameter_samples
    results,        \* MonteCarloSimulation.results
    base_config,    \* MonteCarloSimulation.base_config
    iter_config,    \* iter_config of the current iteration
    mc_failed,      \* the iterations whose factory or engine run raised
    parameter_distributions, \* MonteCarloSimulation.parameter_distributions
    mc_error,       \* the exception that left MonteCarloSimulation.run(), None if none
    mc_log,         \* the steps of MonteCarloSimulation.run() so far, in order
    summary,        \* the table run() returned (empty before)
    saved,          \* the files in MonteCarloSimulation.output_dir
    sensitivity,    \* what generate_sensitivity_analysis() returned (empty before)
    pure_config,    \* the dict the calls of _get_nested_param/_set_nested_param act on
    pure_path,      \* the path argument of those calls
    pure_dist,      \* the ParameterDistribution sample() is called on
    pure_calls,     \* the calls made on them so far, with what each gave
    manager_base_config, \* ScenarioManager.base_config, the dict every Scenario refers to
    scenarios,      \* ScenarioManager._scenarios, by name
    scenario_files, \* the YAML files of scenarios_dir, by stem
    scenario_call   \* the last call on the manager or on a scenario, with what it gave

engineVars == <<start_year, end_year, components, state, pc, year, idx, ref,
                history, green_share, capacity, log, progress, simulation_engine,
                other_components, analytics>>
runVars == <<mc_pc, n_iterations, mc_i, parameter_samples, results, base_config,
             iter_config, mc_failed, parameter_distributions, mc_error, mc_log,
             summary, saved, sensitivity>>
analysisVars == <<summary, saved, sensitivity>>
pureVars == <<pure_config, pure_path, pure_dist, pure_calls>>
scenarioVars == <<manager_base_config, scenarios, scenario_files, scenario_call>>
mcVars == <<runVars, pureVars, scenarioVars>>
vars == <<engineVars, mcVars>>

N == Len(components)

\* ------------------------------------------------------------ pure helpers
IsPrefix(p, s) == Len(p) <= Len(s) /\ SubSeq(s, 1, Len(p)) = p

\* next(c for c in comps if name == wanted): the first match, 0 for StopIteration
FirstExact(comps, wanted) ==
    LET hits == {i \in 1..Len(comps) : comps[i].name = wanted}
    IN IF hits = {} THEN 0 ELSE CHOOSE i \in hits : \A j \in hits : i <= j

\* (a lookup that keeps the last component whose name starts with the prefix)
FirstPrefixLast(comps, prefix) ==
    LET hits == {i \in 1..Len(comps) : IsPrefix(prefix, comps[i].name)}
    IN IF hits = {} THEN 0 ELSE CHOOSE i \in hits : \A j \in hits : i >= j

\* next(c for c in comps if name.startswith(prefix)): the first match, 0 for StopIteration
FirstPrefix(comps, prefix) ==
    LET hits == {i \in 1..Len(comps) : IsPrefix(prefix, comps[i].name)}
    IN IF hits = {} THEN 0 ELSE CHOOSE i \in hits : \A j \in hits : i <= j

\* The sibling a class looks up in initialize, over the whole registry.
Lookup(cls, comps) ==
    CASE cls \in {"Grid", "Finance"} -> FirstExact(comps, RenewableName)
      [] cls \in {"Manufacturing", "Install"} -> FirstPrefix(comps, RenewablePrefix)
      [] cls = "BESS" -> FirstPrefix(comps, GridPrefix)
      [] OTHER -> 0

\* (a reader that never sees the map: the default whatever was written)
StateGetDefault(st, key, default) == default

\* dict.get(key, default)
StateGet(st, key, default) == IF st[key] = NoValue THEN default ELSE st[key]

Min(a, b) == IF a <= b THEN a ELSE b

\* self.green_share = min(0.9, self.green_share * 1.02)
NextGreenShare(gs) == Min(GreenShareCap, (gs * GreenShareGrowthPct) \div 100)

\* 1 + total_bri_investment * green_share * innovation_boost_factor
InnovationBoost(gs) == BoostOne + (TotalBriInvestment * gs * InnovationBoostFactor) \div 1000

\* capacity + capacity * growth_rate * innovation_boost
Grow(cap, permille, boost) == cap + (cap * permille * boost) \div (1000 * BoostOne)


\* ------------------------------------------------------- component methods
\* A Custom component stands for any other implementation of the abstract
\* SimulationComponent: each of its methods may raise or return.
MayRaise(c) == IF c.cls = "Custom" THEN BOOLEAN ELSE {FALSE}

\* get_results() of a Custom producer is any implementation: the iloc[-1] and the
\* column reads of a dependent whose cached sibling is one may raise or return.
MayReadRaise(i) ==
    IF /\ components[i].cls \in {"Manufacturing", "Install"}
       /\ ref[i] # 0
       /\ components[ref[i]].cls = "Custom"
    THEN BOOLEAN ELSE {FALSE}

\* What a Custom step may write to the shared map (NoValue: no write).
MayWrite(c) == IF c.cls = "Custom" THEN {NoValue, CustomBoost} ELSE {NoValue}

\* (a lookup that sees only the components registered before position i)
InitializeRaisesEarlierOnly(i) ==
    /\ components[i].cls \in {"Grid", "Finance", "Manufacturing", "Install"}
    /\ Lookup(components[i].cls, SubSeq(components, 1, i - 1)) = 0

\* (a BESS Deployment that lets StopIteration escape as well)
InitializeRaisesBess(i) ==
    /\ components[i].cls \in {"Grid", "Finance", "Manufacturing", "Install", "BESS"}
    /\ Lookup(components[i].cls, components) = 0

\* Does initialize of the component at position i raise?  Grid Integration and
\* Financial Modeling raise from their except StopIteration handler,
\* Manufacturing and Installation Capacity let StopIteration escape; BESS
\* catches it and keeps None.
InitializeRaises(i) ==
    /\ components[i].cls \in {"Grid", "Finance", "Manufacturing", "Install"}
    /\ Lookup(components[i].cls, components) = 0

\* (a step that finds a last row in an empty table)
StepRaisesNever(i) == FALSE

\* Does step of the component at position i raise?  iloc[-1] on the producer's
\* empty table, or history[-1] on an empty list, is an IndexError.
StepRaises(i) ==
    \/ /\ components[i].cls \in {"Manufacturing", "Install"}
       /\ history[ref[i]] = <<>>
    \/ /\ components[i].cls = "BESS"
       /\ ref[i] # 0
       /\ history[ref[i]] = <<>>

Event(op, i, y, raised, read, wrote) ==
    [op |-> op, comp |-> i, year |-> y, raised |-> raised, read |-> read, wrote |-> wrote]

\* ------------------------------------------------- the engine's control flow
\* (a handler that logs the exception and goes on with the next component)
AfterInitializeSwallow(raised) == [pc |-> "initialize", idx |-> idx + 1]

\* (a loop that skips every other component)
AfterInitializeSkip(raised) ==
    IF raised THEN [pc |-> "raised", idx |-> idx]
    ELSE [pc |-> "initialize", idx |-> idx + 2]

\* _initialize_components has no handler: an exception leaves run().
AfterInitialize(raised) ==
    IF raised THEN [pc |-> "raised", idx |-> idx]
    ELSE [pc |-> "initialize", idx |-> idx + 1]

\* (a handler that logs the exception and goes on with the next component)
AfterStepSwallow(raised) == [pc |-> "loop", idx |-> idx + 1, year |-> year]

\* (the two loops nested the other way round: component-major, year-minor)
AfterStepComponentMajor(raised) ==
    IF raised THEN [pc |-> "raised", idx |-> idx, year |-> year]
    ELSE IF year < end_year THEN [pc |-> "loop", idx |-> idx, year |-> year + 1]
    ELSE [pc |-> "loop", idx |-> idx + 1, year |-> start_year]

\* _run_simulation_loop has no handler around component.step(year); the
\* inner loop goes on to the next component of the same year.
AfterStep(raised) ==
    IF raised THEN [pc |-> "raised", idx |-> idx, year |-> year]
    ELSE [pc |-> "loop", idx |-> idx + 1, year |-> year]

\* (progress.update called outside the try: its exception leaves run())
AfterYearPropagate(raised) ==
    IF raised THEN [pc |-> "raised", idx |-> idx, year |-> year]
    ELSE [pc |-> "loop", idx |-> 1, year |-> year + 1]

\* progress.update(...) sits in try/except Exception: a warning is printed
\* and the for loop goes on to the next year whether it raised or not.
AfterYear(raised) == [pc |-> "loop", idx |-> 1, year |-> year + 1]

\* whether progress.update can raise: there is no call when progress is None
MayUpdateRaise(p) == IF p = "None" THEN {FALSE} ELSE BOOLEAN

\* (a total that counts the solar capacity only)
TotalCapacitySolarOnly(cap) == cap.solar

\* GridIntegration.step: total_renewable_capacity = sum(current_capacity.values())
TotalCapacity(cap) == cap.solar + cap.wind

\* BESSDeployment.step: curtailed = None, or the curtailment_rate of the last
\* row of the cached Grid Integration.  A rate is represented by the total
\* capacity Grid Integration computed it from.
Curtailed(sibling, hist) ==
    IF sibling = 0 THEN NoValue
    ELSE hist[sibling][Len(hist[sibling])].total_renewable_capacity

\* (a step that appends nothing to self.history)
StepRowsNone(c, y, cap, curtailed) == <<>>

\* the rows one step(y) appends to self.history: one per province for
\* ProvincialAnalysis, one for every other class.  cap is the capacity dict of
\* Renewable Capacity Expansion as the step has it when it builds the row.
\* Grid Integration's curtailment_rate is a function of the total capacity it
\* read and of the transmission capacity of the YAML configuration; its row
\* carries that total.  curtailed is what BESSDeployment.step read.
StepRows(c, y, cap, curtailed) ==
    IF c.cls = "Provincial"
    THEN [p \in 1..Len(Provinces) |-> [year |-> y, province |-> Provinces[p]]]
    ELSE IF c.cls = "Renewable"
    THEN <<[year |-> y, solar_gw |-> cap.solar, wind_gw |-> cap.wind]>>
    ELSE IF c.cls = "Grid"
    THEN <<[year |-> y, total_renewable_capacity |-> TotalCapacity(cap)]>>
    ELSE IF c.cls = "BESS"
    THEN <<[year |-> y, curtailment_rate |-> curtailed]>>
    ELSE <<[year |-> y]>>

\* (insert(0, component): the newest component first)
RegistryAfterAddFirst(comps, c) == <<c>> \o comps

\* self.components.append(component)
RegistryAfterAdd(comps, c) == Append(comps, c)

\* SimulationComponent.set_engine: a plain assignment
SetEngine(refs, c, e) == [refs EXCEPT ![c] = e]

\* (a loop that skips every other component)
AfterFinalizeSkip(raised) ==
    IF raised THEN [pc |-> "raised", idx |-> idx]
    ELSE [pc |-> "finalize", idx |-> idx + 2]

\* _finalize_components has no handler around component.finalize().
AfterFinalize(raised) ==
    IF raised THEN [pc |-> "raised", idx |-> idx]
    ELSE [pc |-> "finalize", idx |-> idx + 1]

\* (range(self.start_year, self.end_year): the last year left out)
InRangeExclusive(y) == start_year <= y /\ y < end_year

\* range(self.start_year, self.end_year + 1)
InRange(y) == start_year <= y /\ y <= end_year

\* ------------------------------------------------------ the analytics block
\* Where the try block of _finalize_components may fail apart from a
\* component's get_results(): in its imports, before a collector exists, or in
\* concat, persist and the two plot calls, after the frames were gathered.
Breaks == {"none", "import", "persist"}

\* The block has not run.
NoAnalytics == [calls |-> <<>>, frames |-> <<>>, outcome |-> "off"]

\* ResultsCollector.collect from component i on: get_results() inside try, a
\* table that is not empty is tagged with the component's name and kept, an
\* exception is printed and the loop goes on.  fails are the positions whose
\* get_results() raises.
RECURSIVE CollectFrom(_, _, _, _)
CollectFrom(i, comps, tables, fails) ==
    IF i > Len(comps) THEN <<>>
    ELSE (IF i \in fails \/ tables[i] = <<>> THEN <<>>
          ELSE <<[component |-> comps[i].name, table |-> tables[i]]>>)
         \o CollectFrom(i + 1, comps, tables, fails)

\* (a collector whose loop ends at the first get_results() that raises)
CollectUntilFailure(comps, tables, fails) ==
    LET before == {i \in 1..Len(comps) : \A j \in fails : i < j}
    IN CollectFrom(1, SubSeq(comps, 1, Cardinality(before)), tables, fails)

\* ResultsCollector.collect
Collect(comps, tables, fails) == CollectFrom(1, comps, tables, fails)

\* What the try block ends in: "warning" when the except clause printed one,
\* "None" when collector.run() returned None for an empty table, "written" when
\* the parquet file and the figures were produced.
AnalyticsOutcome(frames, broken) ==
    IF broken = "import" THEN "warning"
    ELSE IF frames = <<>> THEN "None"
    ELSE IF broken = "persist" THEN "warning"
    ELSE "written"

\* (an analytics block without the try: its exception leaves run())
AfterAnalyticsPropagate(outcome) == IF outcome = "warning" THEN "raised" ELSE "done"

\* except Exception: the warning is printed and _finalize_components returns
AfterAnalytics(outcome) == "done"

\* ----------------------------------------------------------------- actions
\* SimulationEngine.add_component, called before run()
AddComponent(c) ==
    /\ pc = "setup"
    /\ mc_pc = "off"
    /\ N < MaxComponents
    /\ \A i \in 1..N : components[i] # c
    /\ simulation_engine' = SetEngine(simulation_engine, c, "engine")
    /\ components' = RegistryAfterAdd(components, c)
    /\ ref' = [i \in 1..(N + 1) |-> 0]
    /\ history' = [i \in 1..(N + 1) |-> <<>>]
    /\ UNCHANGED <<start_year, end_year, state, pc, year, idx, green_share, capacity, log,
                   progress, other_components, analytics>>
    /\ UNCHANGED mcVars

\* add_component of a second SimulationEngine instance, called with any
\* component object, bound elsewhere or not: neither add_component nor
\* set_engine looks at the back-reference the component already has
AddComponentOther(c) ==
    /\ pc = "setup"
    /\ mc_pc = "off"
    /\ Len(other_components) < MaxComponents
    /\ \A i \in DOMAIN other_components : other_components[i] # c
    /\ simulation_engine' = SetEngine(simulation_engine, c, "other")
    /\ other_components' = RegistryAfterAdd(other_components, c)
    /\ UNCHANGED <<start_year, end_year, components, state, pc, year, idx, ref, history,
                   green_share, capacity, log, progress, analytics>>
    /\ UNCHANGED mcVars

\* SimulationEngine.run entered: _initialize_components starts its loop
Run ==
    /\ pc = "setup"
    /\ mc_pc = "off"
    /\ pc' = "initialize"
    /\ idx' = 1
    /\ \E p \in ProgressArgs : progress' = p
    /\ UNCHANGED <<start_year, end_year, components, state, year, ref, history,
                   green_share, capacity, log, simulation_engine, other_components,
                   analytics>>
    /\ UNCHANGED mcVars

\* component.initialize() of the component at idx
Initialize ==
    /\ pc = "initialize"
    /\ idx <= N
    /\ \E custom_raises \in MayRaise(components[idx]) :
         LET c == components[idx]
             raised == custom_raises \/ InitializeRaises(idx)
             after == AfterInitialize(raised)
         IN /\ pc' = after.pc
            /\ idx' = after.idx
            /\ log' = Append(log, Event("initialize", idx, 0, raised, NoValue, NoValue))
            /\ ref' = IF raised THEN ref ELSE [ref EXCEPT ![idx] = Lookup(c.cls, components)]
            /\ history' = IF c.cls = "Provincial" THEN history
                          ELSE [history EXCEPT ![idx] = <<>>]
            /\ green_share' = IF c.cls = "BRI" THEN InitialGreenShare ELSE green_share
            /\ capacity' = IF c.cls = "Renewable"
                           THEN [solar |-> InitialSolar, wind |-> InitialWind]
                           ELSE capacity
    /\ UNCHANGED <<start_year, end_year, components, state, year>>
    /\ UNCHANGED <<progress, simulation_engine, other_components, analytics>>
    /\ UNCHANGED mcVars

\* _initialize_components returned: _run_simulation_loop starts at start_year
InitializeDone ==
    /\ pc = "initialize"
    /\ idx = N + 1
    /\ pc' = "loop"
    /\ year' = start_year
    /\ idx' = 1
    /\ UNCHANGED <<start_year, end_year, components, state, ref, history,
                   green_share, capacity, log>>
    /\ UNCHANGED <<progress, simulation_engine, other_components, analytics>>
    /\ UNCHANGED mcVars

\* component.step(year) of the component at idx
Step ==
    /\ pc = "loop"
    /\ InRange(year)
    /\ idx <= N
    /\ \E custom_raises \in MayRaise(components[idx]) \cup MayReadRaise(idx),
          w \in MayWrite(components[idx]) :
         LET c == components[idx]
             raised == custom_raises \/ StepRaises(idx)
             after == AfterStep(raised)
             boost == StateGet(state, BoostKey, BoostOne)
             gs == NextGreenShare(green_share)
             cap == [solar |-> Grow(capacity.solar, GrowthSolarPermille, boost),
                     wind |-> Grow(capacity.wind, GrowthWindPermille, boost)]
             read == IF c.cls = "Renewable" THEN boost ELSE NoValue
             wrote == IF raised THEN NoValue
                      ELSE IF c.cls = "BRI" THEN InnovationBoost(gs) ELSE w
             rows == StepRows(c, year, IF c.cls = "Renewable" THEN cap ELSE capacity,
                              IF c.cls = "BESS" THEN Curtailed(ref[idx], history)
                              ELSE NoValue)
         IN /\ custom_raises => w = NoValue
            /\ pc' = after.pc
            /\ idx' = after.idx
            /\ year' = after.year
            /\ log' = Append(log, Event("step", idx, year, raised, read, wrote))
            /\ state' = IF wrote = NoValue THEN state ELSE [state EXCEPT ![BoostKey] = wrote]
            /\ green_share' = IF c.cls = "BRI" THEN gs ELSE green_share
            /\ capacity' = IF c.cls = "Renewable" THEN cap ELSE capacity
            /\ history' = IF raised THEN history
                          ELSE [history EXCEPT ![idx] = @ \o rows]
    /\ UNCHANGED <<start_year, end_year, components, ref>>
    /\ UNCHANGED <<progress, simulation_engine, other_components, analytics>>
    /\ UNCHANGED mcVars

\* the end of one pass of the year loop: every component has stepped, and
\* progress.update(1, ...) is called when a progress object was given
YearEnd ==
    /\ pc = "loop"
    /\ InRange(year)
    /\ idx = N + 1
    /\ \E update_raises \in MayUpdateRaise(progress) :
         LET after == AfterYear(update_raises)
         IN /\ pc' = after.pc
            /\ idx' = after.idx
            /\ year' = after.year
            /\ log' = IF progress = "None" THEN log
                      ELSE Append(log, Event("progress", 0, year, update_raises,
                                             NoValue, NoValue))
    /\ UNCHANGED <<start_year, end_year, components, state, ref, history,
                   green_share, capacity, progress, simulation_engine, other_components,
                   analytics>>
    /\ UNCHANGED mcVars

\* the range is exhausted: _run_simulation_loop returns, _finalize_components starts
LoopDone ==
    /\ pc = "loop"
    /\ ~InRange(year)
    /\ pc' = "finalize"
    /\ idx' = 1
    /\ UNCHANGED <<start_year, end_year, components, state, year, ref, history,
                   green_share, capacity, log>>
    /\ UNCHANGED <<progress, simulation_engine, other_components, analytics>>
    /\ UNCHANGED mcVars

\* component.finalize() of the component at idx
Finalize ==
    /\ pc = "finalize"
    /\ idx <= N
    /\ \E custom_raises \in MayRaise(components[idx]) :
         LET after == AfterFinalize(custom_raises)
         IN /\ pc' = after.pc
            /\ idx' = after.idx
            /\ log' = Append(log, Event("finalize", idx, 0, custom_raises, NoValue, NoValue))
    /\ UNCHANGED <<start_year, end_year, components, state, year, ref, history,
                   green_share, capacity>>
    /\ UNCHANGED <<progress, simulation_engine, other_components, analytics>>
    /\ UNCHANGED mcVars

\* every finalize returned; the analytics block is inside try/except Exception,
\* so run() returns whatever happens in it
FinalizeDone ==
    /\ pc = "finalize"
    /\ idx = N + 1
    /\ \E fails \in SUBSET {i \in 1..N : TRUE \in MayRaise(components[i])},
          broken \in Breaks :
         LET calls == IF broken = "import" THEN <<>>
                      ELSE [i \in 1..N |-> [comp |-> i, raised |-> i \in fails]]
             frames == IF broken = "import" THEN <<>>
                       ELSE Collect(components, history, fails)
             outcome == AnalyticsOutcome(frames, broken)
         IN /\ analytics' = [calls |-> calls, frames |-> frames, outcome |-> outcome]
            /\ pc' = AfterAnalytics(outcome)
    /\ UNCHANGED <<start_year, end_year, components, state, year, idx, ref, history,
                   green_share, capacity, log>>
    /\ UNCHANGED <<progress, simulation_engine, other_components>>
    /\ UNCHANGED mcVars

\* -------------------------------- nested configurations, paths, sampling
\* A configuration is a nested dict: Mapping(f) is a dict with items f, and
\* Leaf(v) is any value that is not a dict.
Leaf(v) == [leaf |-> v]
Mapping(f) == [items |-> f]
IsMapping(t) == "items" \in DOMAIN t

\* what a call gives back: the value it returned, or the exception it raised
Returned(v) == [error |-> "None", value |-> v]
Raised(e) == [error |-> e, value |-> NoValue]

\* (d.setdefault(key, v): a key that is there keeps its value)
AssignKeepFirst(f, key, v) ==
    [k \in (DOMAIN f) \cup {key} |-> IF k \in DOMAIN f THEN f[k] ELSE v]

\* d[key] = v on a dict with items f: the key is added when it is not there
Assign(f, key, v) == [k \in (DOMAIN f) \cup {key} |-> IF k = key THEN v ELSE f[k]]

\* _get_nested_param: result = result[key] for each key of the path.  Indexing
\* a dict by a key it lacks is a KeyError, indexing a non-dict a TypeError.
RECURSIVE GetNestedParam(_, _)
GetNestedParam(config, path) ==
    IF path = <<>> THEN Returned(config)
    ELSE IF ~IsMapping(config) THEN Raised("TypeError")
    ELSE IF Head(path) \notin DOMAIN config.items THEN Raised("KeyError")
    ELSE GetNestedParam(config.items[Head(path)], Tail(path))

\* (target.setdefault(key, {}): a missing intermediate dict is created)
RECURSIVE SetNestedParamAutoCreate(_, _, _)
SetNestedParamAutoCreate(config, path, value) ==
    IF path = <<>> THEN [error |-> "IndexError", config |-> config]
    ELSE IF ~IsMapping(config) THEN [error |-> "TypeError", config |-> config]
    ELSE IF Len(path) = 1
    THEN [error |-> "None", config |-> Mapping(Assign(config.items, path[1], Leaf(value)))]
    ELSE LET below == IF Head(path) \in DOMAIN config.items
                      THEN config.items[Head(path)] ELSE Mapping(<<>>)
             inner == SetNestedParamAutoCreate(below, Tail(path), value)
         IN [error |-> inner.error,
             config |-> IF inner.error = "None"
                        THEN Mapping(Assign(config.items, Head(path), inner.config))
                        ELSE config]

\* (target is never advanced: the last key is assigned in the outermost dict)
SetNestedParamOutermost(config, path, value) ==
    IF path = <<>> THEN [error |-> "IndexError", config |-> config]
    ELSE [error |-> "None",
          config |-> Mapping(Assign(config.items, path[Len(path)], Leaf(value)))]

\* _set_nested_param: target = target[key] for each key but the last, then
\* target[path[-1]] = value.  The dict is changed in place, by the final
\* assignment only: config is the dict after the call, the dict as it was
\* when the call raised.
RECURSIVE SetNestedParam(_, _, _)
SetNestedParam(config, path, value) ==
    IF path = <<>> THEN [error |-> "IndexError", config |-> config]
    ELSE IF ~IsMapping(config) THEN [error |-> "TypeError", config |-> config]
    ELSE IF Len(path) = 1
    THEN [error |-> "None", config |-> Mapping(Assign(config.items, path[1], Leaf(value)))]
    ELSE IF Head(path) \notin DOMAIN config.items
    THEN [error |-> "KeyError", config |-> config]
    ELSE LET inner == SetNestedParam(config.items[Head(path)], Tail(path), value)
         IN [error |-> inner.error,
             config |-> IF inner.error = "None"
                        THEN Mapping(Assign(config.items, Head(path), inner.config))
                        ELSE config]

\* ".".join(param_path)
RECURSIVE Join(_)
Join(path) ==
    IF path = <<>> THEN ""
    ELSE IF Len(path) = 1 THEN path[1]
    ELSE path[1] \o "." \o Join(Tail(path))

\* The distribution kinds sample() has a branch for.
Kinds == {"normal", "uniform", "triangular", "discrete"}

\* The defaults of self.params.get(...) in sample(), in thousandths.
DefaultMean == 0
DefaultStd == 1000
DefaultLow == 0
DefaultHigh == 1000
DefaultMode == 500

\* ParameterDistribution(param_path, distribution, params)
Dist(path, kind, params) == [param_path |-> path, distribution |-> kind, params |-> params]
NoDist == Dist(<<>>, "None", <<>>)

\* self.params.get(key, default)
ParamGet(params, key, default) == IF key \in DOMAIN params THEN params[key] ELSE default

\* the parameters each branch of sample() reads
ParamsRead(kind) ==
    CASE kind = "normal" -> {"mean", "std"}
      [] kind = "uniform" -> {"low", "high"}
      [] kind = "triangular" -> {"low", "mode", "high"}
      [] kind = "discrete" -> {"values"}
      [] OTHER -> {}

\* the draws of a continuous distribution the model follows: two or three
\* points of its support
NormalDraws(mean, std) == {mean, mean + std}
UniformDraws(low, high) == {low, (low + high) \div 2}
TriangularDraws(low, mode, high) == {low, mode}

\* (a sample() that reads its parameters with self.params[key] and turns the
\* KeyError into the ValueError of a malformed distribution)
SampleOutcomesStrict(d) ==
    IF d.distribution \notin Kinds THEN {Raised("ValueError")}
    ELSE IF ~(ParamsRead(d.distribution) \subseteq DOMAIN d.params) THEN {Raised("ValueError")}
    ELSE CASE d.distribution = "normal" ->
                {Returned(v) : v \in NormalDraws(d.params.mean, d.params.std)}
           [] d.distribution = "uniform" ->
                {Returned(v) : v \in UniformDraws(d.params.low, d.params.high)}
           [] d.distribution = "triangular" ->
                {Returned(v) : v \in TriangularDraws(d.params.low, d.params.mode, d.params.high)}
           [] OTHER ->
                IF d.params.values = <<>> THEN {Raised("ValueError")}
                ELSE {Returned(d.params.values[i]) : i \in DOMAIN d.params.values}

\* ParameterDistribution.sample: everything one call may give
SampleOutcomes(d) ==
    CASE d.distribution = "normal" ->
           {Returned(v) : v \in NormalDraws(ParamGet(d.params, "mean", DefaultMean),
                                            ParamGet(d.params, "std", DefaultStd))}
      [] d.distribution = "uniform" ->
           {Returned(v) : v \in UniformDraws(ParamGet(d.params, "low", DefaultLow),
                                             ParamGet(d.params, "high", DefaultHigh))}
      [] d.distribution = "triangular" ->
           {Returned(v) : v \in TriangularDraws(ParamGet(d.params, "low", DefaultLow),
                                                ParamGet(d.params, "mode", DefaultMode),
                                                ParamGet(d.params, "high", DefaultHigh))}
      [] d.distribution = "discrete" ->
           LET values == ParamGet(d.params, "values", <<>>)
           IN IF values = <<>> THEN {Raised("ValueError")}
              ELSE {Returned(values[i]) : i \in DOMAIN values}
      [] OTHER -> {Raised("ValueError")}

\* The inputs of the calls below: every nested dict over two keys down to
\* MaxDepth levels, every path of up to MaxDepth + 1 keys, and every
\* distribution whose params are a subset of a full parameter set.
MaxDepth == 2
Keys == {"x", "y"}
SetValues == {7}

RECURSIVE Trees(_)
Trees(depth) ==
    IF depth = 0 THEN {Leaf(1)}
    ELSE Trees(depth - 1) \cup
         {Mapping(f) : f \in UNION {[S -> Trees(depth - 1)] : S \in SUBSET Keys}}

Configs == {t \in Trees(MaxDepth) : IsMapping(t)}
Paths == UNION {[1..n -> Keys] : n \in 1..(MaxDepth + 1)}

FullParams(kind) ==
    CASE kind = "uniform" -> [low |-> 2000, high |-> 4000]
      [] kind = "triangular" -> [low |-> 2000, mode |-> 3000, high |-> 4000]
      [] kind = "discrete" -> [values |-> <<2, 3>>]
      [] OTHER -> [mean |-> 5000, std |-> 2000]

Restrict(f, S) == [k \in S |-> f[k]]

Distributions ==
    UNION {{Dist(<<"g", "v">>, kind, Restrict(FullParams(kind), S)) :
               S \in SUBSET DOMAIN FullParams(kind)} : kind \in Kinds \cup {"lognormal"}}
    \cup {Dist(<<"g", "v">>, "discrete", [values |-> <<>>])}

\* the record of one call
Call(op, before, arg, outcome) ==
    [op |-> op, before |-> before, arg |-> arg, error |-> outcome.error,
     value |-> outcome.value]

\* pure_dist.sample()
SampleCall ==
    /\ pure_dist # NoDist
    /\ pure_calls = <<>>
    /\ \E outcome \in SampleOutcomes(pure_dist) :
          pure_calls' = <<Call("sample", pure_config, NoValue, outcome)>>
    /\ UNCHANGED <<pure_config, pure_path, pure_dist>>
    /\ UNCHANGED <<engineVars, runVars, scenarioVars>>

\* _set_nested_param(pure_config, pure_path, v)
SetCall(v) ==
    /\ pure_path # <<>>
    /\ pure_calls = <<>>
    /\ LET after == SetNestedParam(pure_config, pure_path, v)
       IN /\ pure_config' = after.config
          /\ pure_calls' = <<Call("set", pure_config, v, [error |-> after.error, value |-> NoValue])>>
    /\ UNCHANGED <<pure_path, pure_dist>>
    /\ UNCHANGED <<engineVars, runVars, scenarioVars>>

\* _get_nested_param(pure_config, pure_path), as the first call or after a set
GetCall ==
    /\ pure_path # <<>>
    /\ \/ pure_calls = <<>>
       \/ Len(pure_calls) = 1 /\ pure_calls[1].op = "set"
    /\ pure_calls' = Append(pure_calls, Call("get", pure_config, NoValue,
                                             GetNestedParam(pure_config, pure_path)))
    /\ UNCHANGED <<pure_config, pure_path, pure_dist>>
    /\ UNCHANGED <<engineVars, runVars, scenarioVars>>

\* ------------------------------------------------------------ Monte Carlo
\* The base configuration {"g": {"v": 1}} of the experiments.
BaseConfig == Mapping([g |-> Mapping([v |-> Leaf(1)])])

\* The distribution lists of the experiments: a two-valued draw for the leaf
\* g.v alone; the same with a default normal draw for g.w, a key that g
\* lacks; a kind sample() has no branch for; a discrete distribution with no
\* values after a good one; a path whose first key the configuration lacks;
\* a path that runs through the leaf g.v.
GoodDist == Dist(<<"g", "v">>, "discrete", [values |-> <<2, 3>>])
LaterDist == Dist(<<"g", "v">>, "discrete", [values |-> <<5, 7>>])
DottedDist == Dist(<<"g.v">>, "discrete", [values |-> <<2, 3>>])
DistributionLists ==
    { <<GoodDist>>,
      <<GoodDist, Dist(<<"g", "w">>, "normal", <<>>)>>,
      <<Dist(<<"g", "v">>, "lognormal", [mean |-> 5000, std |-> 2000])>>,
      <<GoodDist, Dist(<<"g", "w">>, "discrete", <<>>)>>,
      <<Dist(<<"h", "v">>, "discrete", [values |-> <<2, 3>>])>>,
      <<Dist(<<"g", "v", "w">>, "discrete", [values |-> <<2, 3>>])>> }

\* _sample_parameters from some distribution on, with the samples so far:
\* every dict of samples the loop may build, or the exception of the first
\* sample() that raises
RECURSIVE SampleParametersFrom(_, _)
SampleParametersFrom(dists, samples) ==
    IF dists = <<>> THEN {[error |-> "None", samples |-> samples]}
    ELSE UNION { IF drawn.error # "None"
                 THEN {[error |-> drawn.error, samples |-> samples]}
                 ELSE SampleParametersFrom(Tail(dists),
                          Assign(samples, Join(Head(dists).param_path), drawn.value)) :
                 drawn \in SampleOutcomes(Head(dists)) }

\* _sample_parameters
SampleParameters(dists) == SampleParametersFrom(dists, <<>>)

\* the loop of _apply_samples over the distributions, on the dict config_copy:
\* the dict after the loop, or the exception of the first set that raises
RECURSIVE ApplyFrom(_, _, _)
ApplyFrom(config_copy, dists, samples) ==
    IF dists = <<>> THEN [error |-> "None", config |-> config_copy]
    ELSE LET path_str == Join(Head(dists).param_path)
         IN IF path_str \notin DOMAIN samples
            THEN ApplyFrom(config_copy, Tail(dists), samples)
            ELSE LET after == SetNestedParam(config_copy, Head(dists).param_path,
                                             samples[path_str])
                 IN IF after.error # "None" THEN after
                    ELSE ApplyFrom(after.config, Tail(dists), samples)

\* (config_copy = config: the loop assigns into the caller's dict)
ApplySamplesNoCopy(config, dists, samples) ==
    LET after == ApplyFrom(config, dists, samples)
    IN [error |-> after.error, config |-> after.config, copy |-> after.config]

\* _apply_samples: config_copy = copy.deepcopy(config) shares no dict with
\* config, so the assignments of the loop reach the copy alone.  config is
\* the caller's dict after the call, copy the dict returned.
ApplySamples(config, dists, samples) ==
    LET after == ApplyFrom(config, dists, samples)
    IN [error |-> after.error, config |-> config, copy |-> after.config]

\* (the exception is caught like a failed iteration: on to the next one)
AfterConfigErrorSkip(i) == [mc_pc |-> "sample", mc_i |-> i + 1]

\* _sample_parameters and _apply_samples are called outside the inner try:
\* their exception passes the finally clause and leaves run()
AfterConfigError(i) == [mc_pc |-> "raised", mc_i |-> i]

\* The engines a factory may build: [Renewable, Grid] runs to the end, [Grid]
\* fails in initialize, [Manufacturing, Renewable] fails in its first step,
\* and a Custom component may fail anywhere.
Component(cls) == [cls |-> cls, name |-> DefaultName(cls)]
FactoryRegistries ==
    { <<Component("Renewable"), Component("Grid")>>,
      <<Component("Grid")>>,
      <<Component("Manufacturing"), Component("Renewable")>>,
      <<Component("Renewable"), Component("Custom")>> }
FactoryEndYear == StartYear + 1

\* The attributes of class SimulationEngine that are methods.
EngineMethods == {"add_component", "run", "_initialize_components",
                  "_run_simulation_loop", "_finalize_components"}

\* engine.get_all_results(): an AttributeError unless the class has the method
GetAllResultsRaises == "get_all_results" \notin EngineMethods

\* the SimulationResult of iteration i
RunResult(i, samples) ==
    [iteration |-> i, parameters |-> samples,
     results |-> [c \in 1..N |-> history[c]]]

\* --------------------------------------------------------- result analysis
\* A SimulationResult is [iteration, parameters, results], results mapping a
\* module name to its table, a sequence of rows; a row maps a column to a
\* cell.  A cell is a number or a value of another type (a str such as a
\* province name): isinstance(value, (int, float)) is all the analysis asks.
\* Statistics are fixed-point integers in 1/100, correlations in 1/1000.
Num(v) == [numeric |-> TRUE, value |-> v]
NotNumeric == [numeric |-> FALSE, value |-> 0]

\* f"{module_name}.{metric_name}"
MetricKey(module, column) == module \o "." \o column

\* df.iloc[-1].to_dict() of a table that is not empty
FinalValues(table) == table[Len(table)]

\* (the isinstance test left out: every column of the final row counts)
HasValueAnyType(run, module, column) ==
    /\ module \in DOMAIN run.results
    /\ run.results[module] # <<>>
    /\ column \in DOMAIN FinalValues(run.results[module])

\* Does a recorded run add a value to the metric of (module, column)?  Its
\* table is there and not empty (`if df is None or df.empty: continue`) and
\* the final row holds a number in that column.
HasValue(run, module, column) ==
    /\ module \in DOMAIN run.results
    /\ run.results[module] # <<>>
    /\ column \in DOMAIN FinalValues(run.results[module])
    /\ FinalValues(run.results[module])[column].numeric

\* the module names and the columns that occur in the recorded runs
ModulesOf(rs) == UNION {DOMAIN rs[k].results : k \in DOMAIN rs}
ColumnsOf(rs) ==
    UNION {DOMAIN FinalValues(rs[k].results[m]) :
             <<k, m>> \in {km \in (DOMAIN rs) \X ModulesOf(rs) :
                             /\ km[2] \in DOMAIN rs[km[1]].results
                             /\ rs[km[1]].results[km[2]] # <<>>}}

\* the (module, column) pairs that get an entry in the metrics dict
MetricPairs(rs) ==
    {p \in ModulesOf(rs) \X ColumnsOf(rs) : \E k \in DOMAIN rs : HasValue(rs[k], p[1], p[2])}

\* metrics[key]: the final values of the runs that have one, in the order of
\* self.results
RECURSIVE CollectValues(_, _, _)
CollectValues(rs, module, column) ==
    IF rs = <<>> THEN <<>>
    ELSE (IF HasValue(Head(rs), module, column)
          THEN <<FinalValues(Head(rs).results[module])[column].value>>
          ELSE <<>>) \o CollectValues(Tail(rs), module, column)

RECURSIVE SumSeq(_)
SumSeq(s) == IF s = <<>> THEN 0 ELSE Head(s) + SumSeq(Tail(s))

RECURSIVE SumSquares(_)
SumSquares(s) == IF s = <<>> THEN 0 ELSE Head(s) * Head(s) + SumSquares(Tail(s))

RECURSIVE Insert(_, _)
Insert(x, s) ==
    IF s = <<>> THEN <<x>>
    ELSE IF x <= Head(s) THEN <<x>> \o s
    ELSE <<Head(s)>> \o Insert(x, Tail(s))

\* the values in ascending order
RECURSIVE SortValues(_)
SortValues(s) == IF s = <<>> THEN <<>> ELSE Insert(Head(s), SortValues(Tail(s)))

\* the largest k in lo..hi with k * k <= x, by bisection
RECURSIVE RootBetween(_, _, _)
RootBetween(lo, hi, x) ==
    IF lo = hi THEN lo
    ELSE LET mid == (lo + hi + 1) \div 2
         IN IF mid * mid <= x THEN RootBetween(mid, hi, x) ELSE RootBetween(lo, mid - 1, x)
\* the square root, rounded down (46340 squared is the largest 32-bit square)
Root(x) == RootBetween(0, IF x < 46340 THEN x ELSE 46340, x)

\* (the rank is looked up in the values as they arrived)
PercentileUnsorted(values, q) ==
    LET pos == (Len(values) - 1) * q
        lo == pos \div 100
        frac == pos % 100
    IN IF frac = 0 THEN values[lo + 1] * 100
       ELSE values[lo + 1] * 100 + frac * (values[lo + 2] - values[lo + 1])

\* np.percentile(values, q): the value at rank (n - 1) * q / 100 of the sorted
\* values, interpolated linearly between the two closest ranks
Percentile(values, q) ==
    LET s == SortValues(values)
        pos == (Len(s) - 1) * q
        lo == pos \div 100
        frac == pos % 100
    IN IF frac = 0 THEN s[lo + 1] * 100
       ELSE s[lo + 1] * 100 + frac * (s[lo + 2] - s[lo + 1])

\* the row of statistics of one metric (values is not empty)
Statistics(values) ==
    LET n == Len(values)
        sum == SumSeq(values)
    IN [mean |-> (sum * 100) \div n,
        median |-> Percentile(values, 50),
        std |-> Root(((n * SumSquares(values) - sum * sum) * 10000) \div (n * n)),
        min |-> SortValues(values)[1],
        max |-> SortValues(values)[n],
        p10 |-> Percentile(values, 10),
        p25 |-> Percentile(values, 25),
        p75 |-> Percentile(values, 75),
        p90 |-> Percentile(values, 90),
        count |-> n]

\* the files _save_results writes (save_all_runs is False)
SummaryFile == "summary_statistics.csv"
SamplesFile == "parameter_samples.csv"

\* _analyze_results: the summary table, one row per metric key, and the
\* files written on the way.  With no recorded result it returns an empty
\* table before _save_results is reached.
AnalyzeResults(rs) ==
    IF rs = <<>> THEN [summary |-> <<>>, written |-> {}]
    ELSE [summary |-> [key \in {MetricKey(p[1], p[2]) : p \in MetricPairs(rs)} |->
                         LET p == CHOOSE q \in MetricPairs(rs) : MetricKey(q[1], q[2]) = key
                         IN Statistics(CollectValues(rs, p[1], p[2]))],
          written |-> {SummaryFile, SamplesFile}]

\* the engine variables while no engine is being run
NoEngine ==
    /\ start_year' = StartYear
    /\ end_year' = StartYear
    /\ components' = <<>>
    /\ state' = [k \in {BoostKey} |-> NoValue]
    /\ pc' = "setup"
    /\ year' = StartYear
    /\ idx' = 1
    /\ ref' = <<>>
    /\ history' = <<>>
    /\ green_share' = 0
    /\ capacity' = [solar |-> 0, wind |-> 0]
    /\ log' = <<>>
    /\ progress' = "None"
    /\ simulation_engine' = [c \in Objects |-> "None"]
    /\ other_components' = <<>>
    /\ analytics' = NoAnalytics

\* one step of run(): the call of _sample_parameters, of the factory or of
\* engine.run() for iteration i, or the end of iteration i ("succeeded": the
\* result was appended; "failed": the except handler logged it)
MCEvent(op, i, config) == [op |-> op, i |-> i, config |-> config]
NoConfig == Mapping(<<>>)

\* (a failed iteration is tried again: back to the factory with the same i)
AfterIterationRetry(i, failed) ==
    IF failed THEN [mc_pc |-> "factory", mc_i |-> i]
    ELSE [mc_pc |-> "sample", mc_i |-> i + 1]

\* the end of one pass of `for i in range(self.n_iterations)`, after the try
\* statement has appended the result or its handler has logged the failure
AfterIteration(i, failed) == [mc_pc |-> "sample", mc_i |-> i + 1]

\* (only the latest set of samples is kept)
RecordSamplesLatest(recorded, samples) == <<samples>>

\* run(): self.parameter_samples.append(samples)
RecordSamples(recorded, samples) == Append(recorded, samples)

\* run(): sample the parameters of iteration mc_i (line 246), record them
\* (247) and build the iteration's configuration (250)
MCSample ==
    /\ mc_pc = "sample"
    /\ mc_i < n_iterations
    /\ \E drawn \in SampleParameters(parameter_distributions) :
         LET applied == ApplySamples(base_config, parameter_distributions, drawn.samples)
             error == IF drawn.error # "None" THEN drawn.error ELSE applied.error
             after == IF error # "None" THEN AfterConfigError(mc_i)
                      ELSE [mc_pc |-> "factory", mc_i |-> mc_i]
         IN /\ parameter_samples' = IF drawn.error # "None" THEN parameter_samples
                                    ELSE RecordSamples(parameter_samples, drawn.samples)
            /\ base_config' = IF drawn.error # "None" THEN base_config ELSE applied.config
            /\ iter_config' = IF error # "None" THEN iter_config ELSE applied.copy
            /\ mc_error' = error
            /\ mc_pc' = after.mc_pc
            /\ mc_i' = after.mc_i
            /\ mc_log' = Append(mc_log, MCEvent("sample", mc_i, NoConfig))
    /\ UNCHANGED <<n_iterations, results, parameter_distributions, mc_failed>>
    /\ UNCHANGED analysisVars
    /\ UNCHANGED engineVars
    /\ UNCHANGED <<pureVars, scenarioVars>>

\* create_engine_func(iter_config) raises: caught, logged, next iteration
MCFactoryRaises ==
    /\ mc_pc = "factory"
    /\ mc_failed' = mc_failed \cup {mc_i}
    /\ mc_i' = AfterIteration(mc_i, TRUE).mc_i
    /\ mc_pc' = AfterIteration(mc_i, TRUE).mc_pc
    /\ mc_log' = mc_log \o <<MCEvent("factory", mc_i, iter_config),
                              MCEvent("failed", mc_i, NoConfig)>>
    /\ UNCHANGED <<n_iterations, parameter_samples, results, base_config, iter_config>>
    /\ UNCHANGED engineVars
    /\ UNCHANGED <<pureVars, scenarioVars>>
    /\ UNCHANGED <<parameter_distributions, mc_error>>
    /\ UNCHANGED analysisVars

\* create_engine_func(iter_config) returns a fresh engine and engine.run() starts
MCFactory(registry) ==
    /\ mc_pc = "factory"
    /\ start_year' = StartYear
    /\ end_year' = FactoryEndYear
    /\ components' = registry
    /\ state' = [k \in {BoostKey} |-> NoValue]
    /\ pc' = "initialize"
    /\ year' = StartYear
    /\ idx' = 1
    /\ ref' = [i \in 1..Len(registry) |-> 0]
    /\ history' = [i \in 1..Len(registry) |-> <<>>]
    /\ green_share' = 0
    /\ capacity' = [solar |-> 0, wind |-> 0]
    /\ log' = <<>>
    /\ progress' = "None"
    /\ simulation_engine' = [c \in Objects |-> IF \E i \in DOMAIN registry : registry[i] = c
                                             THEN "engine" ELSE "None"]
    /\ other_components' = <<>>
    /\ analytics' = NoAnalytics
    /\ mc_pc' = "running"
    /\ mc_log' = mc_log \o <<MCEvent("factory", mc_i, iter_config),
                              MCEvent("run", mc_i, NoConfig)>>
    /\ UNCHANGED <<n_iterations, mc_i, parameter_samples, results, base_config,
                   iter_config, mc_failed>>
    /\ UNCHANGED <<pureVars, scenarioVars>>
    /\ UNCHANGED <<parameter_distributions, mc_error>>
    /\ UNCHANGED analysisVars

\* engine.run() raised: caught, logged, next iteration
MCRunRaised ==
    /\ mc_pc = "running"
    /\ pc = "raised"
    /\ mc_failed' = mc_failed \cup {mc_i}
    /\ mc_i' = AfterIteration(mc_i, TRUE).mc_i
    /\ mc_pc' = AfterIteration(mc_i, TRUE).mc_pc
    /\ mc_log' = Append(mc_log, MCEvent("failed", mc_i, NoConfig))
    /\ NoEngine
    /\ UNCHANGED <<n_iterations, parameter_samples, results, base_config, iter_config>>
    /\ UNCHANGED <<pureVars, scenarioVars>>
    /\ UNCHANGED <<parameter_distributions, mc_error>>
    /\ UNCHANGED analysisVars

\* engine.run() returned: the result is built from engine.get_all_results()
\* and appended, unless that call raises, which the same handler catches
MCCollect ==
    /\ mc_pc = "running"
    /\ pc = "done"
    /\ results' = IF GetAllResultsRaises THEN results
                  ELSE Append(results, RunResult(mc_i, parameter_samples[mc_i + 1]))
    /\ mc_i' = AfterIteration(mc_i, GetAllResultsRaises).mc_i
    /\ mc_pc' = AfterIteration(mc_i, GetAllResultsRaises).mc_pc
    /\ mc_log' = Append(mc_log, MCEvent(IF GetAllResultsRaises THEN "failed" ELSE "succeeded",
                                       mc_i, NoConfig))
    /\ NoEngine
    /\ UNCHANGED <<n_iterations, parameter_samples, base_config, iter_config, mc_failed>>
    /\ UNCHANGED <<pureVars, scenarioVars>>
    /\ UNCHANGED <<parameter_distributions, mc_error>>
    /\ UNCHANGED analysisVars

\* the loop is over: run() returns what _analyze_results returns
MCAnalyze ==
    /\ mc_pc = "sample"
    /\ mc_i = n_iterations
    /\ mc_pc' = "done"
    /\ summary' = AnalyzeResults(results).summary
    /\ saved' = saved \cup AnalyzeResults(results).written
    /\ UNCHANGED sensitivity
    /\ UNCHANGED <<n_iterations, mc_i, parameter_samples, results, base_config,
                   iter_config, mc_failed, mc_log>>
    /\ UNCHANGED engineVars
    /\ UNCHANGED <<pureVars, scenarioVars>>
    /\ UNCHANGED <<parameter_distributions, mc_error>>

\* ------------------------------------------------------ sensitivity analysis
MinDataPoints == 10
MinAligned == 2

\* a float that may be NaN: a correlation, or a cell of a reindexed column
NaN == [nan |-> TRUE, value |-> 0]
Real(v) == [nan |-> FALSE, value |-> v]

\* metrics_data[key]: the final value of each run that has one under that
\* run's iteration index, in the order of self.results
RECURSIVE CollectSeries(_, _, _)
CollectSeries(rs, module, column) ==
    IF rs = <<>> THEN <<>>
    ELSE (IF HasValue(Head(rs), module, column)
          THEN <<[iteration |-> Head(rs).iteration,
                  value |-> FinalValues(Head(rs).results[module])[column].value]>>
          ELSE <<>>) \o CollectSeries(Tail(rs), module, column)

\* params_df.columns: the keys of the recorded sample dicts
ParamColumns(ps) == UNION {DOMAIN ps[k] : k \in DOMAIN ps}

\* (the k-th value of the series goes with the k-th recorded sample set)
AlignedByPosition(ps, param, series, k) ==
    IF k \in DOMAIN ps /\ param \in DOMAIN ps[k] THEN Real(ps[k][param]) ELSE NaN

\* params_df[param].reindex(metric_series.index), at position k: the row of
\* params_df whose label is the iteration of the k-th value of the series,
\* NaN when there is no such row
Aligned(ps, param, series, k) ==
    LET row == series[k].iteration + 1
    IN IF row \in DOMAIN ps /\ param \in DOMAIN ps[row] THEN Real(ps[row][param]) ELSE NaN

\* stats.pearsonr(x, y)[0] in 1/1000: NaN when an input is NaN or constant
Pearson(xs, ys) ==
    LET n == Len(xs)
        x == [k \in 1..n |-> xs[k].value]
        cov == n * SumSeq([k \in 1..n |-> x[k] * ys[k]]) - SumSeq(x) * SumSeq(ys)
        vx == n * SumSquares(x) - SumSeq(x) * SumSeq(x)
        vy == n * SumSquares(ys) - SumSeq(ys) * SumSeq(ys)
    IN IF (\E k \in 1..n : xs[k].nan) \/ vx = 0 \/ vy = 0 THEN NaN
       ELSE LET r == Root(((cov * cov * 1000) \div (vx * vy)) * 1000)
            IN Real(IF cov < 0 THEN 0 - r ELSE r)

\* abs(corr)
Abs(c) == IF c.nan THEN NaN ELSE Real(IF c.value < 0 THEN 0 - c.value ELSE c.value)

\* (more than MinDataPoints values are asked for)
EnoughDataStrict(series) == Len(series) > MinDataPoints

\* `if len(metric_series) < 10: continue`
EnoughData(series) == Len(series) >= MinDataPoints

\* the correlations dict of one metric: a row per parameter column
CorrelationRows(ps, series) ==
    { [param |-> param,
       correlation |-> Pearson([k \in DOMAIN series |-> Aligned(ps, param, series, k)],
                               [k \in DOMAIN series |-> series[k].value]),
       abs_correlation |-> Abs(Pearson([k \in DOMAIN series |-> Aligned(ps, param, series, k)],
                                       [k \in DOMAIN series |-> series[k].value]))] :
      param \in {p \in ParamColumns(ps) : Len(series) >= MinAligned} }

\* the orders of a set of rows in which no row is repeated
Orders(rows) ==
    {t \in [1..Cardinality(rows) -> rows] : \A j, k \in DOMAIN t : j # k => t[j] # t[k]}

\* (sorted by the signed correlation)
RankedBySign(rows) ==
    {t \in Orders(rows) :
        \A j, k \in DOMAIN t :
           j < k => \/ t[k].correlation.nan
                    \/ /\ ~t[j].correlation.nan
                       /\ t[j].correlation.value >= t[k].correlation.value}

\* corr_df.sort_values("abs_correlation", ascending=False): descending, NaN
\* last; the order of rows with equal keys is not specified
Ranked(rows) ==
    {t \in Orders(rows) :
        \A j, k \in DOMAIN t :
           j < k => \/ t[k].abs_correlation.nan
                    \/ /\ ~t[j].abs_correlation.nan
                       /\ t[j].abs_correlation.value >= t[k].abs_correlation.value}

\* the metrics that get a table: enough values, and corr_df not empty
Qualifying(rs, ps) ==
    {p \in MetricPairs(rs) :
        /\ EnoughData(CollectSeries(rs, p[1], p[2]))
        /\ CorrelationRows(ps, CollectSeries(rs, p[1], p[2])) # {}}

\* f"sensitivity_{safe_name}.csv", the metric's "." replaced by "_"
SensitivityFile(module, column) == "sensitivity_" \o module \o "_" \o column \o ".csv"

\* generate_sensitivity_analysis: the reports it may return, a ranked table
\* per qualifying metric key
SensitivityReports(rs, ps) ==
    IF rs = <<>> \/ ps = <<>> THEN {<<>>}
    ELSE LET keys == {MetricKey(p[1], p[2]) : p \in Qualifying(rs, ps)}
             PairOf(key) == CHOOSE p \in Qualifying(rs, ps) : MetricKey(p[1], p[2]) = key
             TablesOf(key) ==
                 Ranked(CorrelationRows(ps, CollectSeries(rs, PairOf(key)[1], PairOf(key)[2])))
         IN {report \in [keys -> UNION {TablesOf(key) : key \in keys}] :
               \A key \in keys : report[key] \in TablesOf(key)}

\* generate_sensitivity_analysis(), called after run() has returned
SensitivityCall ==
    /\ mc_pc = "done"
    /\ mc_pc' = "reported"
    /\ \E report \in SensitivityReports(results, parameter_samples) :
          sensitivity' = report
    /\ saved' = saved \cup
          (IF results = <<>> \/ parameter_samples = <<>> THEN {}
           ELSE {SensitivityFile(p[1], p[2]) : p \in Qualifying(results, parameter_samples)})
    /\ UNCHANGED <<n_iterations, mc_i, parameter_samples, results, base_config,
                   iter_config, mc_failed, parameter_distributions, mc_error, mc_log,
                   summary>>
    /\ UNCHANGED engineVars
    /\ UNCHANGED <<pureVars, scenarioVars>>

\* ------------------------------------------------------------ specification
EngineInit(sy, ey) ==
    /\ start_year = sy
    /\ end_year = ey
    /\ components = <<>>
    /\ state = [k \in {BoostKey} |-> NoValue]
    /\ pc = "setup"
    /\ year = sy
    /\ idx = 1
    /\ ref = <<>>
    /\ history = <<>>
    /\ green_share = 0
    /\ capacity = [solar |-> 0, wind |-> 0]
    /\ log = <<>>
    /\ progress = "None"
    /\ simulation_engine = [c \in Objects |-> "None"]
    /\ other_components = <<>>
    /\ analytics = NoAnalytics


\* ---------------------------------------------------------------- scenarios
\* Scenario._config before the first read of the config property
NotMerged == [unset |-> TRUE]

\* Scenario.__init__: base_config is kept by reference, so the manager's dict
\* stands for it; _config starts as None
NewScenario(name, description, overrides) ==
    [name |-> name, description |-> description, overrides |-> overrides,
     config |-> NotMerged]

\* (target.update(source): a nested dict of the source replaces the target's)
UpdateDictShallow(target, source) ==
    Mapping([k \in (DOMAIN target.items) \cup (DOMAIN source.items) |->
                IF k \in DOMAIN source.items THEN source.items[k] ELSE target.items[k]])

\* Scenario._update_dict_recursive: a key whose value is a dict on both sides is
\* merged, every other key of the source is assigned
RECURSIVE UpdateDictRecursive(_, _)
UpdateDictRecursive(target, source) ==
    Mapping([k \in (DOMAIN target.items) \cup (DOMAIN source.items) |->
                IF k \notin DOMAIN source.items THEN target.items[k]
                ELSE IF /\ k \in DOMAIN target.items
                        /\ IsMapping(target.items[k])
                        /\ IsMapping(source.items[k])
                THEN UpdateDictRecursive(target.items[k], source.items[k])
                ELSE source.items[k]])

\* (self._config = self.base_config: the update reaches the shared dict)
ScenarioConfigNoCopy(base, overrides) ==
    [base |-> UpdateDictRecursive(base, overrides),
     config |-> UpdateDictRecursive(base, overrides)]

\* The first read of Scenario.config: self._config = copy.deepcopy(base_config)
\* shares no dict with the base, so the update reaches the copy alone.  base is
\* the shared dict after the read, config the dict returned.
ScenarioConfig(base, overrides) ==
    [base |-> base, config |-> UpdateDictRecursive(base, overrides)]

\* (a create_scenario without the test: the new scenario takes the name)
CreateRaisesNever(cache, name) == FALSE

\* if name in self._scenarios: raise ScenarioError
CreateRaises(cache, name) == name \in DOMAIN cache

\* What the cache holds under a name (NotRegistered: nothing).
NotRegistered == [registered |-> FALSE]
Registered(cache, name) == IF name \in DOMAIN cache THEN cache[name] ELSE NotRegistered

\* What a call gave: the error it raised, and what the cache held under the
\* name before it.
ScenarioCall(op, name, error, before) ==
    [op |-> op, name |-> name, error |-> error, before |-> before]
NoCall == ScenarioCall("None", "None", "None", NotRegistered)

\* The base configurations defaults.yaml may hold, the overrides a caller or a
\* scenario file may give (none; a nested key; a leaf in place of a dict; a dict
\* in place of a leaf and a new key; an empty dict), the names and descriptions.
BaseConfigs ==
    { Mapping([g |-> Mapping([v |-> Leaf(1), w |-> Leaf(2)]), h |-> Leaf(3)]),
      Mapping([g |-> Leaf(1)]) }
NoOverrides == Mapping(<<>>)
Overrides ==
    { NoOverrides,
      Mapping([g |-> Mapping([v |-> Leaf(9)])]),
      Mapping([g |-> Leaf(5)]),
      Mapping([h |-> Mapping([x |-> Leaf(7)]), k |-> Leaf(8)]),
      Mapping([g |-> Mapping(<<>>)]) }
ScenarioNames == {"default", "saved"}
Descriptions == {"first", "second"}

\* What yaml.safe_load gives for a scenario file: a dict with a description and
\* overrides (the name defaults to the stem), or something that is no dict.
ScenarioFiles ==
    { <<>>,
      "saved" :> [loads |-> TRUE, description |-> "first",
                  overrides |-> Mapping([g |-> Mapping([v |-> Leaf(9)])])],
      "saved" :> [loads |-> FALSE, description |-> "first", overrides |-> NoOverrides] }

\* ScenarioManager.create_scenario(name, description, overrides)
CreateScenario(name, description, overrides) ==
    /\ scenario_call' = ScenarioCall("create_scenario", name,
                                     IF CreateRaises(scenarios, name)
                                     THEN "ScenarioError" ELSE "None",
                                     Registered(scenarios, name))
    /\ scenarios' = IF CreateRaises(scenarios, name) THEN scenarios
                    ELSE Assign(scenarios, name, NewScenario(name, description, overrides))
    /\ UNCHANGED <<manager_base_config, scenario_files>>
    /\ UNCHANGED <<engineVars, runVars, pureVars>>

\* ScenarioManager.get_scenario(name): the default scenario is made on demand;
\* a cached scenario is returned; a file is loaded and cached under the name
\* asked for; no file, or a file that does not load, is a ScenarioError
GetScenario(name) ==
    /\ LET makes == name = "default" /\ name \notin DOMAIN scenarios
           cached == name \in DOMAIN scenarios
           loads == /\ ~makes /\ ~cached
                    /\ name \in DOMAIN scenario_files
                    /\ scenario_files[name].loads
       IN /\ scenarios' =
                IF makes THEN Assign(scenarios, name, NewScenario(name, "default", NoOverrides))
                ELSE IF loads
                THEN Assign(scenarios, name,
                            NewScenario(name, scenario_files[name].description,
                                        scenario_files[name].overrides))
                ELSE scenarios
          /\ scenario_call' = ScenarioCall("get_scenario", name,
                                           IF makes \/ cached \/ loads THEN "None"
                                           ELSE "ScenarioError",
                                           Registered(scenarios, name))
    /\ UNCHANGED <<manager_base_config, scenario_files>>
    /\ UNCHANGED <<engineVars, runVars, pureVars>>

\* Scenario.config read on a registered scenario: merged on the first read,
\* the cached dict afterwards
ReadConfig(name) ==
    /\ name \in DOMAIN scenarios
    /\ LET sc == scenarios[name]
           merged == ScenarioConfig(manager_base_config, sc.overrides)
       IN IF sc.config = NotMerged
          THEN /\ scenarios' = [scenarios EXCEPT ![name].config = merged.config]
               /\ manager_base_config' = merged.base
          ELSE UNCHANGED <<scenarios, manager_base_config>>
    /\ scenario_call' = ScenarioCall("config", name, "None", Registered(scenarios, name))
    /\ UNCHANGED scenario_files
    /\ UNCHANGED <<engineVars, runVars, pureVars>>

\* no Monte Carlo runner exists
NoRunner ==
    /\ mc_pc = "off"
    /\ n_iterations = 0
    /\ mc_i = 0
    /\ parameter_samples = <<>>
    /\ results = <<>>
    /\ base_config = BaseConfig
    /\ iter_config = BaseConfig
    /\ mc_failed = {}
    /\ parameter_distributions = <<>>
    /\ mc_error = "None"
    /\ mc_log = <<>>
    /\ summary = <<>>
    /\ saved = {}
    /\ sensitivity = <<>>

\* no call of sample() or of the path functions is under way
NoPureCall ==
    /\ pure_config = Mapping(<<>>)
    /\ pure_path = <<>>
    /\ pure_dist = NoDist
    /\ pure_calls = <<>>

\* no ScenarioManager exists
NoManager ==
    /\ manager_base_config = Mapping(<<>>)
    /\ scenarios = <<>>
    /\ scenario_files = <<>>
    /\ scenario_call = NoCall

\* A caller builds an engine over start..end (end >= start, or the empty range
\* end = start - 1), registers components and calls run() once.
Init ==
    /\ \E ey \in (StartYear - 1)..(StartYear + MaxYears - 1) : EngineInit(StartYear, ey)
    /\ NoRunner
    /\ NoPureCall
    /\ NoManager

EngineNext ==
    \/ Initialize
    \/ InitializeDone
    \/ Step
    \/ YearEnd
    \/ LoopDone
    \/ Finalize
    \/ FinalizeDone

Next ==
    \/ \E c \in Pool : AddComponent(c)
    \/ Run
    \/ EngineNext

Spec == Init /\ [][Next]_vars

\* An engine whose caller registers the pilot next to the expansion model and
\* its two prefix-matching dependents, in any order.
PrefixPool == {Pilot} \cup {c \in Pool : c.cls \in {"Renewable", "Manufacturing", "Install"}}

NextPrefix ==
    \/ \E c \in PrefixPool : AddComponent(c)
    \/ Run
    \/ EngineNext

SpecPrefix == Init /\ [][NextPrefix]_vars

\* Two engines and three component objects that a caller registers with
\* either engine, or with both, in any order.
RegPool == {[cls |-> c, name |-> DefaultName(c)] : c \in {"Renewable", "Grid", "Provincial"}}

NextReg ==
    \/ \E c \in RegPool : AddComponent(c)
    \/ \E c \in RegPool : AddComponentOther(c)

SpecReg == Init /\ [][NextReg]_vars

\* MonteCarloSimulation(base_config, distributions, n_iterations).run(factory)
\* has just reset results and parameter_samples.
RunnerInit(lists) ==
    /\ EngineInit(StartYear, StartYear)
    /\ NoManager
    /\ mc_pc = "sample"
    /\ n_iterations \in 0..MaxIterations
    /\ mc_i = 0
    /\ parameter_samples = <<>>
    /\ results = <<>>
    /\ base_config = BaseConfig
    /\ iter_config = BaseConfig
    /\ mc_failed = {}
    /\ parameter_distributions \in lists
    /\ mc_error = "None"
    /\ mc_log = <<>>
    /\ summary = <<>>
    /\ saved = {}
    /\ sensitivity = <<>>
    /\ NoPureCall

InitMC == RunnerInit(DistributionLists)

\* The distribution lists with colliding paths: two distributions for the path
\* ["g", "v"]; the one-key path ["g.v"] before the two-key path ["g", "v"].
CollidingLists == { <<GoodDist, LaterDist>>, <<DottedDist, LaterDist>> }

NextMC ==
    \/ MCSample
    \/ MCFactoryRaises
    \/ \E r \in FactoryRegistries : MCFactory(r)
    \/ EngineNext
    \/ MCRunRaised
    \/ MCCollect
    \/ MCAnalyze
    \/ SensitivityCall

SpecMC == InitMC /\ [][NextMC]_vars

\* The same runner, constructed with colliding distributions.
InitCollide == RunnerInit(CollidingLists)

SpecCollide == InitCollide /\ [][NextMC]_vars

\* One call of sample() on a distribution, or one call of _set_nested_param
\* and _get_nested_param on a nested dict, for every input drawn here.
InitPure ==
    /\ EngineInit(StartYear, StartYear)
    /\ NoRunner
    /\ NoManager
    /\ pure_calls = <<>>
    /\ \/ pure_config \in Configs /\ pure_path \in Paths /\ pure_dist = NoDist
       \/ pure_config = Mapping(<<>>) /\ pure_path = <<>> /\ pure_dist \in Distributions

NextPure ==
    \/ SampleCall
    \/ \E v \in SetValues : SetCall(v)
    \/ GetCall

SpecPure == InitPure /\ [][NextPure]_vars

\* ------------------------------------------------------------------ claims
IsStep(k) == log[k].op = "step"
StepEvents == {k \in DOMAIN log : IsStep(k)}
Years == start_year..end_year
PlainEvent(op, c) == Event(op, c, 0, FALSE, NoValue, NoValue)

\* C1: run() is year-major and component-minor: the step calls are made in
\* strictly increasing (year, registration position) order, and before any
\* step of a year after the first, every registered component has completed
\* its step of the year before.
C1_YearMajorComponentMinor ==
    /\ \A a, b \in StepEvents :
         a < b =>
            \/ log[a].year < log[b].year
            \/ log[a].year = log[b].year /\ log[a].comp < log[b].comp
    /\ \A b \in StepEvents :
         log[b].year > start_year =>
            \A c \in 1..N : \E a \in 1..(b - 1) :
               /\ IsStep(a)
               /\ log[a].comp = c
               /\ log[a].year = log[b].year - 1
               /\ ~log[a].raised

C1_Witness ==
    /\ N >= 2
    /\ \E b \in StepEvents : log[b].year = start_year + 1 /\ log[b].comp = 2

\* C2: once the initialize phase has ended without failure, the first N calls
\* of the run are initialize of components 1..N in registration order, no
\* other initialize call is ever made, and every step call comes after them.
C2_InitializeOnceInOrderBeforeSteps ==
    /\ pc \in {"loop", "finalize", "done"} =>
         /\ Len(log) >= N
         /\ \A c \in 1..N : log[c] = PlainEvent("initialize", c)
         /\ \A k \in DOMAIN log : k > N => log[k].op # "initialize"
    /\ \A b \in StepEvents :
         /\ b > N
         /\ \A c \in 1..N : log[c] = PlainEvent("initialize", c)

C2_Witness ==
    /\ N >= 2
    /\ pc = "loop"
    /\ StepEvents # {}

\* C3: when the year loop has ended without failure, each registered component
\* has been stepped exactly once for every year of start_year..end_year and
\* for no other year, in ascending year order:
\* (end_year - start_year + 1) * N step calls in all.
C3_StepOncePerYearPerComponent ==
    pc \in {"finalize", "done"} =>
       /\ \A c \in 1..N, y \in Years :
            Cardinality({k \in StepEvents : log[k].comp = c /\ log[k].year = y}) = 1
       /\ \A k \in StepEvents : log[k].year \in Years /\ ~log[k].raised
       /\ \A a, b \in StepEvents : a < b => log[a].year <= log[b].year
       /\ Cardinality(StepEvents) = (end_year - start_year + 1) * N

C3_Witness ==
    /\ pc = "done"
    /\ N >= 2
    /\ end_year > start_year

\* C4: a run that ends without failure has made exactly N finalize calls, the
\* last N calls of the run, on components 1..N in registration order; and a
\* finalize call is made only after every step call of every year.
C4_FinalizeOnceInOrderAfterLastStep ==
    /\ pc = "done" =>
         /\ Len(log) >= N
         /\ \A c \in 1..N : log[Len(log) - N + c] = PlainEvent("finalize", c)
         /\ \A k \in DOMAIN log : k <= Len(log) - N => log[k].op # "finalize"
    /\ \A a \in DOMAIN log :
         log[a].op = "finalize" =>
            /\ \A b \in StepEvents : b < a
            /\ \A c \in 1..N, y \in Years : \E b \in 1..(a - 1) :
                 IsStep(b) /\ log[b].comp = c /\ log[b].year = y /\ ~log[b].raised

C4_Witness ==
    /\ pc = "done"
    /\ N >= 2
    /\ StepEvents # {}

WriteEvents == {k \in DOMAIN log : log[k].wrote # NoValue}
ReadEvents == {k \in DOMAIN log : log[k].read # NoValue}
WritesBefore(b) == {a \in WriteEvents : a < b}
Latest(S) == CHOOSE a \in S : \A a2 \in S : a2 <= a

\* C5: a step that reads the shared key after some step wrote it (earlier in
\* the same year or in an earlier year) observes the value of the latest such
\* write, and the map itself holds the latest value written.
C5_LastWriteWins ==
    /\ \A b \in ReadEvents :
         WritesBefore(b) # {} => log[b].read = log[Latest(WritesBefore(b))].wrote
    /\ WriteEvents # {} => state[BoostKey] = log[Latest(WriteEvents)].wrote

\* a later-year read that observes the second of two different writes, and a
\* read that observes a write of its own year
C5_Witness ==
    /\ \E b \in ReadEvents : \E a1, a2 \in WritesBefore(b) :
         /\ a1 < a2
         /\ a2 = Latest(WritesBefore(b))
         /\ log[a1].wrote # log[a2].wrote
         /\ log[a2].year < log[b].year
         /\ log[b].read = log[a2].wrote
    /\ \E b \in ReadEvents : \E a \in WritesBefore(b) :
         /\ log[a].year = log[b].year
         /\ log[b].read = log[a].wrote

InitializeEvents == {k \in DOMAIN log : log[k].op = "initialize"}
FinalizeEvents == {k \in DOMAIN log : log[k].op = "finalize"}
ClassAt(k) == components[log[k].comp].cls
\* the sibling that the component of call k looks up, 0 when none is registered
SiblingOf(k) == Lookup(ClassAt(k), components)
\* classes whose initialize needs its sibling, and classes that look one up
Dependents == {"Grid", "Finance", "Manufacturing", "Install"}
LookupClasses == Dependents \cup {"BESS"}

\* C6: a step call that raised is the last call of the run and run() has
\* raised: no later component of that year, no later year, no finalize, and
\* no second attempt.
C6_StepFailureAbortsRun ==
    \A a \in StepEvents : log[a].raised => a = Len(log) /\ pc = "raised"

\* a step that raised with components and years still to come
C6_Witness ==
    \E a \in StepEvents :
       /\ log[a].raised
       /\ log[a].comp < N
       /\ log[a].year < end_year
       /\ a = Len(log)

\* C7 (as claimed): when a finalize call has raised and run() has reported the
\* failure, finalize has been attempted on every registered component.
C7_FinalizeAttemptedOnAll ==
    (pc = "raised" /\ \E a \in FinalizeEvents : log[a].raised) =>
       \A c \in 1..N : \E k \in FinalizeEvents : log[k].comp = c

C9_MissingSiblingAbortsRun ==
    \A k \in InitializeEvents :
       (ClassAt(k) \in Dependents /\ SiblingOf(k) = 0) =>
          /\ log[k].raised
          /\ k = Len(log)
          /\ pc = "raised"
          /\ StepEvents = {} /\ FinalizeEvents = {}

\* the failing dependent has components registered after it
C9_Witness ==
    \E k \in InitializeEvents :
       /\ ClassAt(k) \in Dependents
       /\ SiblingOf(k) = 0
       /\ log[k].raised
       /\ log[k].comp < N

\* C10 (as claimed): when run() has returned, the recorded results are exactly
\* those of the iterations whose factory and engine run did not raise, in
\* ascending iteration order: n_iterations - |failed| results.
C10_OneResultPerNonFailingIteration ==
    mc_pc = "done" =>
       /\ Len(results) = n_iterations - Cardinality(mc_failed)
       /\ \A k \in DOMAIN results : results[k].iteration \in (0..(n_iterations - 1)) \ mc_failed
       /\ \A j, k \in DOMAIN results : j < k => results[j].iteration < results[k].iteration

\* C11 (as claimed): every iteration whose engine was built and whose run
\* returned without raising has exactly one recorded result, and that result
\* holds the iteration index, the samples drawn for that iteration and the
\* component tables of that iteration's engine.
C11_SuccessfulIterationRecorded ==
    \A i \in 0..(mc_i - 1) :
       i \notin mc_failed =>
          /\ Cardinality({k \in DOMAIN results : results[k].iteration = i}) = 1
          /\ \A k \in DOMAIN results :
                results[k].iteration = i =>
                   /\ results[k].parameters = parameter_samples[i + 1]
                   /\ DOMAIN results[k].results # {}

ProgressEvents == {k \in DOMAIN log : log[k].op = "progress"}

\* C17: with a progress reporter, run() notifies it exactly once per simulated
\* year, after every component has stepped that year and before any step of a
\* later year; without one it notifies nobody.  An exception raised by the
\* reporter never leaves run(): the years after it are still stepped and
\* notified, and a run in which no component fails still finalizes every
\* component.
C17_ProgressOncePerYearAndCaught ==
    /\ progress = "None" => ProgressEvents = {}
    /\ \A k \in ProgressEvents :
          /\ \A c \in 1..N : \E j \in StepEvents :
                j < k /\ log[j].comp = c /\ log[j].year = log[k].year /\ ~log[j].raised
          /\ \A j \in StepEvents : j < k => log[j].year <= log[k].year
          /\ \A j \in StepEvents : j > k => log[j].year > log[k].year
          /\ \A j \in ProgressEvents : j # k => log[j].year # log[k].year
    /\ (progress = "tracker" /\ pc \in {"loop", "finalize", "done"}) =>
          \A y \in start_year..(year - 1) : \E k \in ProgressEvents : log[k].year = y
    /\ pc = "raised" => (log # <<>> /\ log[Len(log)].op # "progress")
    /\ (progress = "tracker" /\ pc = "done") =>
          /\ Cardinality(ProgressEvents) = Cardinality(Years)
          /\ Cardinality(StepEvents) = N * Cardinality(Years)
          /\ Cardinality(FinalizeEvents) = N

\* a run over two years or more whose reporter raised in the first year and
\* which went on to finalize both its components
C17_Witness ==
    /\ pc = "done"
    /\ N >= 2
    /\ end_year > start_year
    /\ \E k \in ProgressEvents : log[k].raised /\ log[k].year = start_year

\* C18: the registry changes only by add_component, called before run(): the
\* call puts the component at the end of the list, after every component
\* registered before it, and binds the component's back-reference to this
\* engine; run() never reorders, removes or adds an entry.
C18_RegistryInCallOrder ==
    [][/\ components' # components =>
            /\ pc = "setup"
            /\ \E c \in Pool :
                  /\ components' = components \o <<c>>
                  /\ simulation_engine'[c] = "engine"
       /\ \A i \in DOMAIN components' : simulation_engine'[components'[i]] = "engine"]_vars

\* a finished run over three registered components, all bound to the engine
C18_Witness ==
    /\ pc = "done"
    /\ N >= 3
    /\ \A i \in 1..N : simulation_engine[components[i]] = "engine"

Listed(c, comps) == \E i \in DOMAIN comps : comps[i] = c

\* C19 (as claimed): once a component's back-reference is assigned it never
\* changes, and no component is listed in the registries of two different
\* engine instances.
C19_BoundOnceToOneEngine ==
    [][/\ \A c \in Pool :
             simulation_engine[c] # "None" => simulation_engine'[c] = simulation_engine[c]
       /\ \A c \in Pool : ~(Listed(c, components') /\ Listed(c, other_components'))]_vars

SampleCalls == {k \in DOMAIN pure_calls : pure_calls[k].op = "sample"}
ValuesOf(d) == ParamGet(d.params, "values", <<>>)

Front(path) == SubSeq(path, 1, Len(path) - 1)
LeafAt(config, path) ==
    LET r == GetNestedParam(config, path) IN r.error = "None" /\ ~IsMapping(r.value)
MappingAt(config, path) ==
    LET r == GetNestedParam(config, path) IN r.error = "None" /\ IsMapping(r.value)

\* the walk along path reaches a dict that lacks the next key
RECURSIVE HasAbsentKey(_, _)
HasAbsentKey(config, path) ==
    /\ path # <<>>
    /\ IsMapping(config)
    /\ \/ Head(path) \notin DOMAIN config.items
       \/ HasAbsentKey(config.items[Head(path)], Tail(path))

FirstIs(op) == Len(pure_calls) >= 1 /\ pure_calls[1].op = op

ConfigKeys == {"g", "h", "v", "w"}
ConfigPaths == UNION {[1..n -> ConfigKeys] : n \in 1..3}
SampledPaths == {parameter_distributions[k].param_path : k \in DOMAIN parameter_distributions}

\* C12: whatever iterations have run, the base configuration is the one
\* handed to the runner, and the configuration built for the current
\* iteration is the base configuration with this iteration's samples at the
\* sampled paths and nothing else changed: no value of an earlier iteration
\* is in it.
C12_BaseConfigIsolated ==
    /\ base_config = BaseConfig
    /\ mc_pc \in {"factory", "running"} =>
          LET samples == parameter_samples[mc_i + 1]
          IN \A q \in ConfigPaths :
                IF q \in SampledPaths
                THEN GetNestedParam(iter_config, q) = Returned(Leaf(samples[Join(q)]))
                ELSE (\A s \in SampledPaths : ~IsPrefix(q, s) /\ ~IsPrefix(s, q)) =>
                        GetNestedParam(iter_config, q) = GetNestedParam(BaseConfig, q)

\* the second iteration has its configuration, and its draw for g.v differs
\* from the first iteration's
C12_Witness ==
    /\ mc_pc = "factory"
    /\ mc_i = 1
    /\ parameter_samples[1]["g.v"] # parameter_samples[2]["g.v"]
    /\ GetNestedParam(iter_config, <<"g", "v">>) = Returned(Leaf(parameter_samples[2]["g.v"]))

UnknownKind(d) == d.distribution \notin Kinds
NoValues(d) == d.distribution = "discrete" /\ ValuesOf(d) = <<>>
MissingSegment(d) == GetNestedParam(BaseConfig, d.param_path).error # "None"
NotBelowMapping(d) == ~MappingAt(BaseConfig, Front(d.param_path))
DistsOfRun == {parameter_distributions[k] : k \in DOMAIN parameter_distributions}
EngineAbsent == pc = "setup" /\ components = <<>> /\ log = <<>>

\* C13 (as claimed): with a distribution of unknown kind, a discrete
\* distribution without values or a sampled path that has a missing segment,
\* a batch of one iteration or more raises in its first iteration: no engine
\* is built and no iteration is completed or skipped.
C13_ConfigErrorIsFatal ==
    (n_iterations >= 1 /\ (\E d \in DistsOfRun : UnknownKind(d) \/ NoValues(d) \/ MissingSegment(d))) =>
       /\ mc_pc \in {"sample", "raised"}
       /\ mc_i = 0
       /\ mc_failed = {}
       /\ EngineAbsent

\* C13 (amended): with a distribution of unknown kind, a discrete distribution
\* without values, or a sampled path one of whose keys before the last is
\* missing or is not a mapping, a batch of one iteration or more raises in its
\* first iteration, from the sampling or from the building of the
\* configuration: no engine is built, the iteration is not counted as failed
\* and none follows.  Without such a distribution run() never raises; a path
\* of which only the last key is missing is no error.
C13_ConfigErrorIsFatalBeforeLastKey ==
    /\ (n_iterations >= 1 /\ (\E d \in DistsOfRun : UnknownKind(d) \/ NoValues(d) \/ NotBelowMapping(d))) =>
          /\ mc_pc \in {"sample", "raised"}
          /\ mc_i = 0
          /\ mc_failed = {}
          /\ EngineAbsent
    /\ mc_error # "None" <=> mc_pc = "raised"
    /\ mc_pc = "raised" =>
          /\ \E d \in DistsOfRun : UnknownKind(d) \/ NoValues(d) \/ NotBelowMapping(d)
          /\ results = <<>>
          /\ Len(parameter_samples) = IF mc_error = "ValueError" THEN 0 ELSE 1

\* a batch of two iterations or more that raised a KeyError while building
\* the configuration of its first iteration
C13_Witness ==
    /\ mc_pc = "raised"
    /\ n_iterations >= 2
    /\ mc_error = "KeyError"
    /\ mc_i = 0
    /\ EngineAbsent

\* ---------------------------------------------------------------- C21
\* C21: a consumer registered after its producer sees, in every year Y, the
\* producer's value as it is after the producer's step(Y): Grid Integration
\* registered after Renewable Capacity Expansion has, row for row, the year
\* of the producer's row and the total of the solar and wind capacity that
\* the producer recorded for that year.
C21_ConsumerSeesProducerAfterStep ==
    \A g, r \in 1..N :
       (components[g].cls = "Grid" /\ components[r].cls = "Renewable" /\ r < g) =>
          /\ Len(history[g]) <= Len(history[r])
          /\ \A k \in DOMAIN history[g] :
                /\ history[g][k].year = history[r][k].year
                /\ history[g][k].total_renewable_capacity =
                      history[r][k].solar_gw + history[r][k].wind_gw

\* Grid Integration registered after the producer has recorded two years, the
\* second total larger than the first
C21_Witness ==
    \E g, r \in 1..N :
       /\ components[g].cls = "Grid"
       /\ components[r].cls = "Renewable"
       /\ r < g
       /\ Len(history[g]) = 2
       /\ history[g][2].year = start_year + 1
       /\ history[g][2].total_renewable_capacity > history[g][1].total_renewable_capacity
       /\ history[g][1].total_renewable_capacity > InitialSolar + InitialWind

\* ---------------------------------------------------------------- C30
\* the step call of the component at position i for year y
StepOf(i, y) == {k \in StepEvents : log[k].comp = i /\ log[k].year = y}
\* only the classes of the repository are registered
RepositoryOnly == \A i \in 1..N : components[i].cls # "Custom"

\* C30: the shared state map is never reset between years: with Renewable
\* Capacity Expansion registered before BRI Analysis (and no other writer of
\* the key), Renewable's step(Y) reads the default 1.0 in the first year and,
\* in every later year Y, the bri_innovation_boost that BRI's step(Y-1)
\* wrote; once written the key stays in the map.
C30_RenewableReadsLastYearsBoost ==
    /\ \A r, b \in 1..N :
          (RepositoryOnly /\ components[r].cls = "Renewable" /\ components[b].cls = "BRI"
              /\ r < b) =>
             \A k \in StepEvents :
                log[k].comp = r =>
                   IF log[k].year = start_year
                   THEN log[k].read = BoostOne
                   ELSE \E a \in StepOf(b, log[k].year - 1) :
                           /\ a < k
                           /\ log[a].wrote # NoValue
                           /\ log[k].read = log[a].wrote
    /\ WriteEvents # {} => state[BoostKey] # NoValue

\* Renewable, registered before BRI, has stepped the second year and read a
\* boost above 1.0, which BRI has since overwritten with a larger one
C30_Witness ==
    \E r, b \in 1..N :
       /\ RepositoryOnly
       /\ components[r].cls = "Renewable"
       /\ components[b].cls = "BRI"
       /\ r < b
       /\ \E k \in StepOf(r, start_year + 1), a \in StepOf(b, start_year + 1) :
             /\ log[k].read > BoostOne
             /\ log[a].wrote > log[k].read
             /\ state[BoostKey] = log[a].wrote

\* ---------------------------------------------------------------- C22
\* C22: one sampled parameter set is recorded per iteration, failed
\* iterations included: while iteration i is built or run the recorded list
\* has i + 1 sets and its last set is the one applied to the base
\* configuration to build iter_config; a recorded set never changes; and
\* when run() has returned the list has n_iterations sets.
C22_OneSampleSetPerIteration ==
    /\ [](/\ mc_pc \in {"factory", "running"} =>
               /\ Len(parameter_samples) = mc_i + 1
               /\ iter_config = ApplySamples(base_config, parameter_distributions,
                                             parameter_samples[mc_i + 1]).copy
          /\ mc_pc = "sample" => Len(parameter_samples) = mc_i
          /\ mc_pc = "done" => Len(parameter_samples) = n_iterations)
    /\ [][/\ Len(parameter_samples') >= Len(parameter_samples)
          /\ \A k \in DOMAIN parameter_samples :
                parameter_samples'[k] = parameter_samples[k]]_vars

\* run() has returned after three iterations, one of them failed, the sets
\* recorded for the first two iterations different
C22_Witness ==
    /\ mc_pc = "done"
    /\ n_iterations = MaxIterations
    /\ mc_failed # {}
    /\ mc_failed # 0..(MaxIterations - 1)
    /\ Len(parameter_samples) = MaxIterations
    /\ parameter_samples[1] # parameter_samples[2]

\* ---------------------------------------------------------------- C28
MCEnds == {"succeeded", "failed"}
\* the steps of run() of a given kind
MCEvents(op) == {k \in DOMAIN mc_log : mc_log[k].op = op}

C27_ReturnedRunPersistedFiles ==
    mc_pc = "done" => {SummaryFile, SamplesFile} \subseteq saved

\* ------------------------------------------- the analysis on recorded results
\* _analyze_results and generate_sensitivity_analysis are functions of
\* self.results and self.parameter_samples.  This specification draws the two
\* lists, as the loop of run() fills them when every engine hands out its
\* components' tables by name, and applies the two functions.  The sampled
\* parameters, the final values and the failed iterations follow the index i
\* of the iteration, so that ten and more values, gaps, ties and constant
\* columns all occur among the inputs.
MaxRuns == 11
MaxPermuted == 4

RenewableModule == "Renewable Capacity Expansion"
ProvincialModule == "Provincial Analysis"
BessModule == "BESS Deployment"

\* which distributions the runner samples: none, g.v alone, g.v and g.w, or
\* g.w next to a g.v with the single value 2
SamplePatterns == {"none", "v", "vw", "w"}
DistsOf(sp) ==
    CASE sp = "none" -> <<>>
      [] sp = "v" -> <<GoodDist>>
      [] sp = "vw" -> <<GoodDist, Dist(<<"g", "w">>, "discrete", [values |-> <<0, 1, 2>>])>>
      [] OTHER -> <<Dist(<<"g", "v">>, "discrete", [values |-> <<2>>]),
                    Dist(<<"g", "w">>, "discrete", [values |-> <<0, 1, 2>>])>>
\* the samples of iteration i
SampleAt(sp, i) ==
    CASE sp = "none" -> <<>>
      [] sp = "v" -> ("g.v" :> 2 + (i % 2))
      [] sp = "vw" -> ("g.v" :> 2 + (i % 2)) @@ ("g.w" :> (i \div 2) % 3)
      [] OTHER -> ("g.v" :> 2) @@ ("g.w" :> i % 3)

\* the final solar capacity of iteration i's engine, a function of its samples
Responses == {"twice_v", "against_w", "constant", "noise"}
ResponseAt(rp, samples, i) ==
    LET v == IF "g.v" \in DOMAIN samples THEN samples["g.v"] ELSE 2
        w == IF "g.w" \in DOMAIN samples THEN samples["g.w"] ELSE 0
    IN CASE rp = "twice_v" -> 2 * v
         [] rp = "against_w" -> 5 - 2 * w + (v - 2)
         [] rp = "constant" -> 5
         [] OTHER -> (i * i) % 4

\* the iterations that failed
FailurePatterns(n) == {{}, {0}, {1, 4}, {0, 2, 5}, 0..(n - 1)}

\* the tables of iteration i: every table filled in; or, in iteration 1, an
\* engine over an empty year range and, in iteration 2, a text where the
\* capacity should be
Shapes == {"full", "mixed"}
TablesAt(shape, y, i) ==
    LET empty == shape = "mixed" /\ i = 1
        text == shape = "mixed" /\ i = 2
    IN (RenewableModule :>
          IF empty THEN <<>>
          ELSE <<[year |-> Num(StartYear), solar_gw |-> Num(0)],
                 [year |-> Num(StartYear + 1),
                  solar_gw |-> IF text THEN NotNumeric ELSE Num(y)]>>)
       @@ (ProvincialModule :>
          IF empty THEN <<>>
          ELSE <<[year |-> Num(StartYear + 1), province |-> NotNumeric]>>)
       @@ (BessModule :> <<>>)

\* self.results after the loop: one SimulationResult per iteration that did
\* not fail, in index order
RECURSIVE RecordedFrom(_, _, _, _, _, _)
RecordedFrom(i, n, sp, rp, failed, shape) ==
    IF i >= n THEN <<>>
    ELSE (IF i \in failed THEN <<>>
          ELSE <<[iteration |-> i,
                  parameters |-> SampleAt(sp, i),
                  results |-> TablesAt(shape, ResponseAt(rp, SampleAt(sp, i), i), i)]>>)
         \o RecordedFrom(i + 1, n, sp, rp, failed, shape)

\* the steps of run() that left these results
RECURSIVE StepsFrom(_, _, _, _)
StepsFrom(i, n, sp, failed) ==
    IF i >= n THEN <<>>
    ELSE <<MCEvent("sample", i, NoConfig),
           MCEvent("factory", i, ApplySamples(BaseConfig, DistsOf(sp), SampleAt(sp, i)).copy)>>
         \o (IF i \in failed THEN <<MCEvent("failed", i, NoConfig)>>
             ELSE <<MCEvent("run", i, NoConfig), MCEvent("succeeded", i, NoConfig)>>)
         \o StepsFrom(i + 1, n, sp, failed)

InitAnalysis ==
    /\ EngineInit(StartYear, StartYear)
    /\ NoPureCall
    /\ NoManager
    /\ mc_pc = "sample"
    /\ n_iterations \in 0..MaxRuns
    /\ mc_i = n_iterations
    /\ \E sp \in SamplePatterns, rp \in Responses, shape \in Shapes :
       \E failed \in {f \cap 0..(n_iterations - 1) : f \in FailurePatterns(n_iterations)} :
          /\ parameter_distributions = DistsOf(sp)
          /\ parameter_samples = [k \in 1..n_iterations |-> SampleAt(sp, k - 1)]
          /\ results = RecordedFrom(0, n_iterations, sp, rp, failed, shape)
          /\ mc_failed = failed
          /\ mc_log = StepsFrom(0, n_iterations, sp, failed)
    /\ base_config = BaseConfig
    /\ iter_config = BaseConfig
    /\ mc_error = "None"
    /\ summary = <<>>
    /\ saved = {}
    /\ sensitivity = <<>>

NextAnalysis ==
    \/ MCAnalyze
    \/ SensitivityCall

SpecAnalysis == InitAnalysis /\ [][NextAnalysis]_vars

\* ---------------------------------------------------------------- C25
\* run() has returned
RunReturned == mc_pc \in {"done", "reported"}
\* the recorded runs whose table of the module is not empty and holds a
\* number in the column of its final row
NumericFinal(module, column) ==
    {k \in DOMAIN results :
        /\ module \in DOMAIN results[k].results
        /\ Len(results[k].results[module]) > 0
        /\ column \in DOMAIN results[k].results[module][Len(results[k].results[module])]
        /\ results[k].results[module][Len(results[k].results[module])][column].numeric}
AnalysisModules == {RenewableModule, ProvincialModule, BessModule}
AnalysisColumns == {"year", "solar_gw", "province"}

\* C25: the summary has a row for <module>.<column> exactly when some
\* recorded run's table of that module is not empty and its final row holds
\* a number in that column, and the row's count is the number of such runs;
\* runs with an empty table add nothing.
C25_MetricIncludedIffNumericFinal ==
    RunReturned =>
       \A module \in AnalysisModules, column \in AnalysisColumns :
          /\ MetricKey(module, column) \in DOMAIN summary
                <=> NumericFinal(module, column) # {}
          /\ NumericFinal(module, column) # {} =>
                summary[MetricKey(module, column)].count
                   = Cardinality(NumericFinal(module, column))

\* a summary over runs of which one has empty tables and another a text in
\* the capacity column: the capacity metric counts fewer runs than the year
\* metric, and the province column has no row
C25_Witness ==
    /\ RunReturned
    /\ Len(results) >= 3
    /\ \E k \in DOMAIN results : results[k].results[RenewableModule] = <<>>
    /\ MetricKey(RenewableModule, "solar_gw") \in DOMAIN summary
    /\ summary[MetricKey(RenewableModule, "solar_gw")].count
          < summary[MetricKey(RenewableModule, "year")].count
    /\ summary[MetricKey(RenewableModule, "year")].count < Len(results)
    /\ MetricKey(ProvincialModule, "province") \notin DOMAIN summary

\* ---------------------------------------------------------------- C26
\* the recorded runs with two of them exchanged, and in the order p
Transposed(rs, j, k) ==
    [i \in DOMAIN rs |-> IF i = j THEN rs[k] ELSE IF i = k THEN rs[j] ELSE rs[i]]
Reordered(rs, p) == [i \in DOMAIN rs |-> rs[p[i]]]
OrdersOf(n) == {p \in [1..n -> 1..n] : \A a, b \in 1..n : a # b => p[a] # p[b]}

Reported == mc_pc = "reported"
\* the recorded runs that have a value for the metric, in recorded order
RunsWith(module, column) ==
    SelectSeq(results, LAMBDA run : HasValue(run, module, column))
\* the correlation of the metric's values with the parameter values sampled
\* for the same iterations
CorrelationByIteration(module, column, param) ==
    LET runs == RunsWith(module, column)
    IN Pearson([k \in DOMAIN runs |-> Real(parameter_samples[runs[k].iteration + 1][param])],
               [k \in DOMAIN runs |-> FinalValues(runs[k].results[module])[column].value])
\* the same with the k-th value paired with the k-th recorded sample set
CorrelationByPosition(module, column, param) ==
    LET runs == RunsWith(module, column)
    IN Pearson([k \in DOMAIN runs |-> Real(parameter_samples[k][param])],
               [k \in DOMAIN runs |-> FinalValues(runs[k].results[module])[column].value])

\* C23: in the sensitivity report the correlation of a metric with a
\* parameter is computed from pairs (value of the parameter sampled for
\* iteration i, value of the metric collected from iteration i), one for
\* every recorded run that has a value, also when failed iterations left
\* gaps in the recorded results.
C23_PairedByIteration ==
    Reported =>
       \A module \in AnalysisModules, column \in AnalysisColumns :
          MetricKey(module, column) \in DOMAIN sensitivity =>
             LET table == sensitivity[MetricKey(module, column)]
             IN \A j \in DOMAIN table :
                   /\ table[j].param \in ParamColumns(parameter_samples)
                   /\ table[j].correlation =
                         CorrelationByIteration(module, column, table[j].param)

\* a report over results with a gap (the first iteration failed), where the
\* pairing by position would have given another correlation
C23_Witness ==
    /\ Reported
    /\ 0 \in mc_failed
    /\ \E module \in AnalysisModules, column \in AnalysisColumns :
          /\ MetricKey(module, column) \in DOMAIN sensitivity
          /\ \E j \in DOMAIN sensitivity[MetricKey(module, column)] :
                LET row == sensitivity[MetricKey(module, column)][j]
                IN /\ ~row.correlation.nan
                   /\ row.correlation # CorrelationByPosition(module, column, row.param)

C29_RankedByAbsCorrelation ==
    Reported =>
       \A key \in DOMAIN sensitivity :
          LET table == sensitivity[key]
          IN /\ \A j \in DOMAIN table : table[j].abs_correlation = Abs(table[j].correlation)
             /\ \A j, k \in DOMAIN table :
                   (j < k /\ ~table[k].abs_correlation.nan) =>
                      /\ ~table[j].abs_correlation.nan
                      /\ table[j].abs_correlation.value >= table[k].abs_correlation.value

\* a table whose first parameter has a negative correlation that is larger
\* in absolute value than the positive correlation of the second
C29_Witness ==
    /\ Reported
    /\ \E key \in DOMAIN sensitivity :
          LET table == sensitivity[key]
          IN /\ Len(table) >= 2
             /\ ~table[1].correlation.nan /\ ~table[2].correlation.nan
             /\ table[1].correlation.value < 0
             /\ table[2].correlation.value > 0
             /\ table[1].abs_correlation.value > table[2].abs_correlation.value

\* ---------------------------------------------------------------- C31
\* classes whose step reads the last row of the sibling's history
LastRowReaders == {"BESS", "Manufacturing", "Install"}
\* the dependents registered before the sibling their lookup finds
BeforeProducer ==
    {d \in 1..N : components[d].cls \in LastRowReaders
                    /\ Lookup(components[d].cls, components) > d}

\* C31: registration order shows at step time only: a dependent whose step
\* reads the last row of its producer's history (BESS Deployment before Grid
\* Integration, Manufacturing or Installation Capacity before Renewable
\* Capacity Expansion) initializes without error, and its first step, in the
\* first year, raises and ends the run: it is the last call, it appended no
\* row, and no call belongs to a later year.
C31_OrderCheckedAtStepOnly ==
    \A d \in BeforeProducer :
       /\ \A k \in InitializeEvents : log[k].comp = d => ~log[k].raised
       /\ \A k \in StepEvents :
             log[k].comp = d =>
                /\ log[k].raised
                /\ log[k].year = start_year
                /\ k = Len(log)
                /\ pc = "raised"
                /\ history[d] = <<>>
                /\ \A j \in InitializeEvents : ~log[j].raised
                /\ \A j \in StepEvents : log[j].year = start_year

\* every initialize succeeded, BESS Deployment registered before Grid
\* Integration stepped and raised in a run of two years, with components
\* still to step
C31_Witness ==
    \E d \in BeforeProducer :
       /\ components[d].cls = "BESS"
       /\ end_year > start_year
       /\ Cardinality(InitializeEvents) = N
       /\ d < N
       /\ pc = "raised"
       /\ log[Len(log)] = Event("step", d, start_year, TRUE, NoValue, NoValue)

\* ScenarioManager(scenarios_dir, base_config_path) has loaded its base
\* configuration; callers create, get and read scenarios in any order.
InitScenario ==
    /\ EngineInit(StartYear, StartYear)
    /\ NoRunner
    /\ NoPureCall
    /\ manager_base_config \in BaseConfigs
    /\ scenarios = <<>>
    /\ scenario_files \in ScenarioFiles
    /\ scenario_call = NoCall

NextScenario ==
    \/ \E name \in ScenarioNames, description \in Descriptions, overrides \in Overrides :
          CreateScenario(name, description, overrides)
    \/ \E name \in ScenarioNames : GetScenario(name)
    \/ \E name \in ScenarioNames : ReadConfig(name)

SpecScenario == InitScenario /\ [][NextScenario]_vars

\* ---------------------------------------------------------------- claim C32
\* The classes whose initialize caches next(...) over name.startswith(prefix).
PrefixReaders == {"Manufacturing", "Install"}

\* The registry positions whose name starts with "Renewable Capacity".
RenewableMatches == {i \in 1..N : IsPrefix(RenewablePrefix, components[i].name)}

\* C32: when several registered components have a name starting with
\* "Renewable Capacity", initialize of Manufacturing Capacity and of Installation
\* Capacity raises no error and the sibling it caches is the match registered
\* first.
C32_AmbiguousPrefixTakesFirst ==
    Cardinality(RenewableMatches) >= 2 =>
       \A k \in InitializeEvents :
          components[log[k].comp].cls \in PrefixReaders =>
             /\ ~log[k].raised
             /\ ref[log[k].comp] \in RenewableMatches
             /\ \A j \in RenewableMatches : ref[log[k].comp] <= j

C32_Witness ==
    /\ N = 3
    /\ components[1] = Pilot
    /\ components[2].name = RenewableName
    /\ components[3].cls = "Manufacturing"
    /\ \E k \in InitializeEvents : log[k].comp = 3 /\ ~log[k].raised
    /\ ref[3] = 1

\* ---------------------------------------------------------------- claim C33
\* The positions of BESS Deployment in a registry without a Grid Integration.
BessWithoutGrid ==
    {b \in 1..N : components[b].cls = "BESS" /\ Lookup("BESS", components) = 0}

\* The classes whose methods raise only when a sibling is missing or empty.
Standalone == {"Renewable", "BRI", "Provincial", "BESS"}

\* C33: without a Grid Integration sibling, initialize and step of BESS
\* Deployment never raise, every row it records has curtailment_rate None, the
\* run is never aborted by it, and next to components that need no sibling the
\* run is not aborted at all.
C33_BessToleratesMissingGrid ==
    \A b \in BessWithoutGrid :
       /\ \A k \in DOMAIN log : log[k].comp = b => ~log[k].raised
       /\ ref[b] = 0
       /\ \A r \in DOMAIN history[b] : history[b][r].curtailment_rate = NoValue
       /\ (\A i \in 1..N : components[i].cls \in Standalone) => pc # "raised"

C33_Witness ==
    \E b \in BessWithoutGrid :
       /\ pc = "done"
       /\ end_year = start_year + 1
       /\ Len(history[b]) = 2
       /\ history[b][2] = [year |-> end_year, curtailment_rate |-> NoValue]
       /\ \E i \in 1..N : components[i].cls = "Renewable"

\* ---------------------------------------------------------------- claim C35
\* The positions of the list whose dot-joined path is key.
SameKey(dists, key) == {j \in DOMAIN dists : Join(dists[j].param_path) = key}

\* The positions whose dot-joined path is that of another position too.
Colliding(dists) ==
    {j \in DOMAIN dists : Cardinality(SameKey(dists, Join(dists[j].param_path))) >= 2}

\* The distribution listed last among those with the key.
LastListed(dists, key) ==
    dists[CHOOSE j \in SameKey(dists, key) : \A k \in SameKey(dists, key) : k <= j]

\* The values sample() of d may return.
DrawsOf(d) == {o.value : o \in {x \in SampleOutcomes(d) : x.error = "None"}}

\* C35: when distributions share a dot-joined path, each recorded sample set has
\* one sample under that key, a draw of the distribution listed last, and the
\* configuration handed to the factory holds that value at the path of every one
\* of the colliding distributions.
C35_CollidingPathsShareLastDraw ==
    \A j \in Colliding(parameter_distributions) :
       LET key == Join(parameter_distributions[j].param_path)
           last == LastListed(parameter_distributions, key)
       IN /\ \A s \in DOMAIN parameter_samples :
                /\ key \in DOMAIN parameter_samples[s]
                /\ parameter_samples[s][key] \in DrawsOf(last)
                /\ Cardinality(DOMAIN parameter_samples[s]) < Len(parameter_distributions)
          /\ \A e \in DOMAIN mc_log :
                mc_log[e].op = "factory" =>
                   GetNestedParam(mc_log[e].config, parameter_distributions[j].param_path)
                      = Returned(Leaf(parameter_samples[mc_log[e].i + 1][key]))

C35_Witness ==
    /\ parameter_distributions = <<DottedDist, LaterDist>>
    /\ Len(parameter_samples) = 2
    /\ parameter_samples[1]["g.v"] = 5
    /\ parameter_samples[2]["g.v"] = 7
    /\ \E e \in DOMAIN mc_log :
          /\ mc_log[e].op = "factory"
          /\ mc_log[e].i = 1
          /\ mc_log[e].config.items["g.v"] = Leaf(7)
          /\ mc_log[e].config.items["g"].items["v"] = Leaf(7)

\* ---------------------------------------------------------------- claim C34
\* The frames the collector kept for the component at registry position i.
FramesOf(i) ==
    {f \in DOMAIN analytics.frames : analytics.frames[f].component = components[i].name}

\* C34: a run whose analytics block failed has returned all the same; a run
\* that raised did so in a component method, before the block; and of the
\* components the collector asked, those whose get_results() raised or gave an
\* empty table have no frame while every other one has its table among the
\* frames, once.
C34_AnalyticsFailureContained ==
    /\ analytics.outcome = "warning" => pc = "done"
    /\ pc = "raised" =>
          /\ analytics = NoAnalytics
          /\ log[Len(log)].raised
          /\ log[Len(log)].op \in {"initialize", "step", "finalize"}
    /\ \A k \in DOMAIN analytics.calls :
          LET i == analytics.calls[k].comp
          IN IF analytics.calls[k].raised \/ history[i] = <<>>
             THEN FramesOf(i) = {}
             ELSE /\ Cardinality(FramesOf(i)) = 1
                  /\ \A f \in FramesOf(i) : analytics.frames[f].table = history[i]

C34_Witness ==
    /\ pc = "done"
    /\ N = 3
    /\ analytics.outcome = "warning"
    /\ analytics.calls = <<[comp |-> 1, raised |-> FALSE], [comp |-> 2, raised |-> TRUE],
                           [comp |-> 3, raised |-> FALSE]>>
    /\ history[2] # <<>>
    /\ Len(analytics.frames) = 2
    /\ analytics.frames[1].component = components[1].name
    /\ analytics.frames[2].component = components[3].name

\* ---------------------------------------------------------------- claim C36
\* The paths of a nested dict that end in a value that is no dict.
RECURSIVE LeavesOf(_)
LeavesOf(tree) ==
    IF ~IsMapping(tree) THEN {<<>>}
    ELSE UNION {{<<k>> \o p : p \in LeavesOf(tree.items[k])} : k \in DOMAIN tree.items}

\* config has the override value at every leaf of the overrides, the base value
\* at every leaf of the base that the overrides have no entry at or above, and
\* no other leaf.
MergedAsClaimed(base, overrides, config) ==
    /\ \A p \in LeavesOf(overrides) :
          GetNestedParam(config, p) = GetNestedParam(overrides, p)
    /\ \A p \in LeavesOf(base) :
          HasAbsentKey(overrides, p) => GetNestedParam(config, p) = GetNestedParam(base, p)
    /\ \A p \in LeavesOf(config) :
          \/ p \in LeavesOf(overrides)
          \/ p \in LeavesOf(base) /\ GetNestedParam(config, p) = GetNestedParam(base, p)

\* C36: no call, a read of Scenario.config included, changes the base
\* configuration the scenarios of a manager share, and every merged config has
\* the override value at each overridden leaf and the base value at every other
\* leaf.
C36_ConfigReadLeavesBaseAlone ==
    /\ [](\A name \in DOMAIN scenarios :
             scenarios[name].config # NotMerged =>
                MergedAsClaimed(manager_base_config, scenarios[name].overrides,
                                scenarios[name].config))
    /\ [][manager_base_config' = manager_base_config]_vars

C36_Witness ==
    /\ scenario_call.op = "config"
    /\ scenario_call.name = "saved"
    /\ scenario_call.before.config = NotMerged
    /\ scenarios["saved"].overrides = Mapping([g |-> Mapping([v |-> Leaf(9)])])
    /\ scenarios["saved"].config =
          Mapping([g |-> Mapping([v |-> Leaf(9), w |-> Leaf(2)]), h |-> Leaf(3)])
    /\ manager_base_config =
          Mapping([g |-> Mapping([v |-> Leaf(1), w |-> Leaf(2)]), h |-> Leaf(3)])

\* ---------------------------------------------------------------- claim C37
\* C37: create_scenario with a name the manager has a scenario under raises
\* ScenarioError and leaves that scenario as it was; with a new name it returns
\* and registers the scenario.
C37_DuplicateCreateRaises ==
    scenario_call.op = "create_scenario" =>
       IF scenario_call.before # NotRegistered
       THEN /\ scenario_call.error = "ScenarioError"
            /\ scenarios[scenario_call.name] = scenario_call.before
       ELSE /\ scenario_call.error = "None"
            /\ scenario_call.name \in DOMAIN scenarios
            /\ scenarios[scenario_call.name].config = NotMerged

C37_Witness ==
    /\ scenario_call.op = "create_scenario"
    /\ scenario_call.name = "saved"
    /\ scenario_call.error = "ScenarioError"
    /\ "saved" \in DOMAIN scenario_files
    /\ scenarios["saved"].description = "first"
    /\ scenarios["saved"].config # NotMerged
    /\ "default" \in DOMAIN scenarios

====
